---- MODULE Spec2Model ----
(***************************************************************************)
(* ade-ctld: the application index (Index, Indexer, scanners), the         *)
(* per-server filter state and the command handlers of the CMDLIST server. *)
(*                                                                         *)
(* Strings are sequences of one-character strings, so that substring       *)
(* search and case folding are computed, not assumed.                      *)
(***************************************************************************)
EXTENDS Integers, Sequences, FiniteSets, TLC

\* ------------------------------------------------------------------ bounds
\* Capacity of execChan / desktopChan; the code uses 100, the model a
\* smaller capacity with scan results that exceed it.
ChanCap == 1
\* Number of client connections.
MaxConns == 2
\* Number of Reindex calls issued over all connections (Spec).
MaxReindex == 2
\* Number of Reindex calls of SpecObserve.
MaxObservedReindex == 1
\* Number of list commands of SpecObserve.
MaxLists == 1
\* Number of goroutines calling Index.Add concurrently (SpecAdd).
MaxAdders == 4
\* Total number of FilterExprs held by the server's Filters.
MaxFilters == 2
\* lines a connection sends after its header
MaxLines == 4

\* ----------------------------------------------------------------- strings
UpperChars == <<"A","B","C","D","E","F","G","H","I","J","K","L","M",
                "N","O","P","Q","R","S","T","U","V","W","X","Y","Z">>
LowerChars == <<"a","b","c","d","e","f","g","h","i","j","k","l","m",
                "n","o","p","q","r","s","t","u","v","w","x","y","z">>

\* unicode.ToLower on one (ASCII) character
ToLowerChar(c) ==
    IF \E i \in 1..26 : UpperChars[i] = c
    THEN LowerChars[CHOOSE i \in 1..26 : UpperChars[i] = c]
    ELSE c

\* strings.ToLower
ToLower(s) == [i \in 1..Len(s) |-> ToLowerChar(s[i])]

\* strings.Contains(s, sub)
Contains(s, sub) ==
    \E i \in 0..(Len(s) - Len(sub)) :
        \A j \in 1..Len(sub) : s[i + j] = sub[j]

\* strings.EqualFold (ASCII)
EqualFold(a, b) == ToLower(a) = ToLower(b)

\* strings.HasPrefix
HasPrefix(s, p) == Len(s) >= Len(p) /\ SubSeq(s, 1, Len(p)) = p

\* filepath.Base of a cleaned absolute path
RECURSIVE Base(_)
Base(p) ==
    IF \E i \in 1..Len(p) : p[i] = "/"
    THEN Base(SubSeq(p, (CHOOSE i \in 1..Len(p) : p[i] = "/") + 1, Len(p)))
    ELSE p

\* the nil / empty Go map
EmptyMap == <<>>

\* ------------------------------------------------------ the scanned machine
\* Files found by filepath.Walk under each root, in walk (lexical) order.
\* mode is the permission bits' "any execute bit" (mode & 0111 != 0).
BinPath == <<"bin">>
AltPath == <<"opt">>

WalkFiles(root) ==
    IF root = "bin"
    THEN << [path |-> <<"/","b">>,             isDir |-> TRUE,  exec |-> TRUE],
            [path |-> <<"/","b","/",".","h">>, isDir |-> FALSE, exec |-> TRUE],
            [path |-> <<"/","b","/","l","s">>, isDir |-> FALSE, exec |-> TRUE],
            [path |-> <<"/","b","/","r","c">>, isDir |-> FALSE, exec |-> FALSE],
            [path |-> <<"/","b","/","v","i">>, isDir |-> FALSE, exec |-> TRUE] >>
    ELSE IF root = "opt"
    THEN << [path |-> <<"/","o">>,             isDir |-> TRUE,  exec |-> TRUE],
            [path |-> <<"/","o","/","l","s">>, isDir |-> FALSE, exec |-> TRUE] >>
    ELSE << >>

\* .desktop files as ParseDesktopFile returns them, with their NoDisplay key
FoxDesktop ==
    [Path |-> <<"/","a","/","F",".","d">>, Name |-> <<"F","o","x">>,
     Names |-> (<<"r","u">> :> <<"L","i","s">>),
     Exec |-> <<"f","o","x">>, Terminal |-> FALSE,
     Categories |-> << <<"N","e","t">>, <<"W","e","b">> >>,
     NoDisplay |-> FALSE]
GimDesktop ==
    [Path |-> <<"/","a","/","G",".","d">>, Name |-> <<"G","i","m">>,
     Names |-> EmptyMap,
     Exec |-> <<"g","i","m">>, Terminal |-> FALSE,
     Categories |-> << <<"G","f","x">>, <<"W","e","b">> >>,
     NoDisplay |-> FALSE]
HidDesktop ==
    [Path |-> <<"/","a","/","H",".","d">>, Name |-> <<"H","i","d">>,
     Names |-> EmptyMap,
     Exec |-> <<"h","i","d">>, Terminal |-> TRUE,
     Categories |-> << >>, NoDisplay |-> TRUE]

\* three applications as their .desktop files (scenario of the protocol
\* description: "fi fox" is meant to find firefox)
FirefoxDesktop ==
    [Path |-> <<"/","a","/","f",".","d">>,
     Name |-> <<"F","i","r","e","f","o","x">>,
     Names |-> EmptyMap,
     Exec |-> <<"f","i","r","e","f","o","x">>, Terminal |-> FALSE,
     Categories |-> << <<"N","e","t">> >>, NoDisplay |-> FALSE]
WaylandDesktop ==
    [Path |-> <<"/","a","/","w",".","d">>,
     Name |-> <<"F","i","r","e","f","o","x"," ","(","W","a","y","l","a","n","d",")">>,
     Names |-> EmptyMap,
     Exec |-> <<"f","i","r","e","f","o","x"," ","-","w">>, Terminal |-> FALSE,
     Categories |-> << <<"N","e","t">> >>, NoDisplay |-> FALSE]
GimpDesktop ==
    [Path |-> <<"/","a","/","g",".","d">>,
     Name |-> <<"G","i","m","p">>,
     Names |-> EmptyMap,
     Exec |-> <<"g","i","m","p">>, Terminal |-> FALSE,
     Categories |-> << <<"G","f","x">> >>, NoDisplay |-> FALSE]

TopDesktop ==
    [Path |-> <<"/","a","/","T",".","d">>, Name |-> <<"T","o","p">>,
     Names |-> EmptyMap,
     Exec |-> <<"t","o","p"," ","-","d"," ","1">>, Terminal |-> TRUE,
     Categories |-> << <<"S","y","s">> >>, NoDisplay |-> FALSE]

\* three .desktop files of a machine whose applications are started: an Exec
\* with a field code, and two entries without an Exec key (ParseDesktopFile
\* accepts a file that has a Name), one of them run in a terminal
UrlDesktop ==
    [Path |-> <<"/","a","/","u",".","d">>, Name |-> <<"W","e","b">>,
     Names |-> EmptyMap,
     Exec |-> <<"w","e","b"," ","%","u">>, Terminal |-> FALSE,
     Categories |-> << <<"N","e","t">> >>, NoDisplay |-> FALSE]
DocDesktop ==
    [Path |-> <<"/","a","/","v",".","d">>, Name |-> <<"D","o","c">>,
     Names |-> EmptyMap,
     Exec |-> << >>, Terminal |-> FALSE,
     Categories |-> << >>, NoDisplay |-> FALSE]
TtyDesktop ==
    [Path |-> <<"/","a","/","w",".","d">>, Name |-> <<"T","t","y">>,
     Names |-> EmptyMap,
     Exec |-> << >>, Terminal |-> TRUE,
     Categories |-> << >>, NoDisplay |-> FALSE]

\* removeFieldCodes
IsLetter(ch) ==
    \E i \in 1..26 : UpperChars[i] = ch \/ LowerChars[i] = ch
RECURSIVE RemoveFieldCodes(_)
RemoveFieldCodes(s) ==
    IF s = << >> THEN << >>
    ELSE IF s[1] = "%" /\ Len(s) > 1 /\ (IsLetter(s[2]) \/ s[2] = "%")
    THEN (IF s[2] = "%" THEN <<"%">> ELSE << >>)
         \o RemoveFieldCodes(SubSeq(s, 3, Len(s)))
    ELSE <<s[1]>> \o RemoveFieldCodes(Tail(s))

\* isExecutable / hidden-file test / directory skip of scanPath's walk func
IsCandidate(f) ==
    /\ ~f.isDir
    /\ f.exec
    /\ ~HasPrefix(Base(f.path), <<".">>)

\* scanPath: the ExecutableInfo values sent for one root, in order
ScanPathResults(root) ==
    LET files == WalkFiles(root)
        RECURSIVE Emit(_)
        Emit(i) ==
            IF i > Len(files) THEN << >>
            ELSE IF IsCandidate(files[i])
                 THEN << [Name |-> Base(files[i].path), Path |-> files[i].path] >>
                      \o Emit(i + 1)
                 ELSE Emit(i + 1)
    IN Emit(1)

\* ScanPaths: every root in turn
RECURSIVE ScanPathsResults(_)
ScanPathsResults(paths) ==
    IF paths = << >> THEN << >>
    ELSE ScanPathResults(Head(paths)) \o ScanPathsResults(Tail(paths))

\* an IsNoDisplay that cannot open the file: it returns false for every path
NoDisplayNever(files, path) == FALSE

\* desktop.IsNoDisplay(path): re-reads the file among files
NoDisplayIn(files, path) ==
    \E i \in 1..Len(files) : files[i].Path = path /\ files[i].NoDisplay

\* processResults: Entry built from an ExecutableInfo
ExecEntry(info) ==
    [ID |-> 0, Name |-> info.Name, Names |-> EmptyMap, Path |-> info.Path,
     Exec |-> info.Path, Terminal |-> FALSE, Categories |-> << >>,
     IsDesktop |-> FALSE]

\* processResults: Entry built from a DesktopEntry
DeskEntry(desk) ==
    [ID |-> 0, Name |-> desk.Name, Names |-> desk.Names, Path |-> desk.Path,
     Exec |-> desk.Exec, Terminal |-> desk.Terminal,
     Categories |-> desk.Categories, IsDesktop |-> TRUE]

\* ------------------------------------------------------------------- Index
\* NewIndex
NewIndex == [entries |-> EmptyMap, nextID |-> 1]

\* Index.Add as one critical section (see the Add* actions for its steps)
IndexAdd(ix, entry) ==
    [entries |-> ix.entries @@ (ix.nextID :> [entry EXCEPT !.ID = ix.nextID]),
     nextID |-> ix.nextID + 1]

\* an Index.Get that returns the zero Entry for an ID it does not hold,
\* without clearing its ok result
IndexGetZero(ix, id) ==
    [ok |-> TRUE,
     entry |-> IF id \in DOMAIN ix.entries THEN ix.entries[id]
               ELSE [ID |-> 0, Name |-> << >>, Names |-> EmptyMap,
                     Path |-> << >>, Exec |-> << >>, Terminal |-> FALSE,
                     Categories |-> << >>, IsDesktop |-> FALSE]]

\* Index.Get
IndexGet(ix, id) ==
    IF id \in DOMAIN ix.entries
    THEN [ok |-> TRUE, entry |-> ix.entries[id]]
    ELSE [ok |-> FALSE, entry |-> << >>]

\* Index.GetAll: the entries, as a set (map iteration order is unspecified)
GetAll(ix) == {ix.entries[id] : id \in DOMAIN ix.entries}

\* Index.Count
Count(ix) == Cardinality(DOMAIN ix.entries)

\* ----------------------------------------------------------------- callers
\* main's idx.Start(ctx) is caller 0; the Reindex call made for a "reindex"
\* command of connection c is caller c.  A run is named after its caller.
Conns == 1..MaxConns
StartCaller == 0
Callers == {StartCaller} \cup Conns
\* paths arguments of Reindex
PathChoices == {<< >>, AltPath}
\* the Index object allocated by NewIndexer is 0, the one of run r is r + 1
ObjOf(r) == r + 1
Objs == 0..(MaxConns + 1)
NoCaller == -1

VARIABLES
    \* the machine
    desktopFiles,  \* the .desktop files of the standard locations, parsed,
                   \* in walk order
    cfgPath,       \* config.Get().Path(): the configured scan roots
    spawnCount,    \* number of child processes started by cmd.Start()
    lastSpawn,     \* argv of the child process started last
    \* Indexer
    idxIndex,      \* idx.index: the Index object referenced
    indexes,       \* heap of Index objects
    idxRunning,    \* idx.running
    idxMu,         \* idx.mu: caller holding the write lock, or NoCaller
    indexCancel,   \* idx.indexCancel: run whose context it cancels, or NoCaller
    ctxDone,       \* per run: indexCtx is cancelled
    wgCount,       \* idx.indexWg: counter
    wgWaiters,     \* idx.indexWg: number of registered waiters
    pc,            \* per caller: position in Start / Reindex / runIndexing
    runPaths,      \* per run: the paths being scanned
    scan,          \* per run: producer and consumer goroutines
    execChan,      \* per run: execChan contents
    desktopChan,   \* per run: desktopChan contents
    reindexRet,    \* per caller: count returned by Reindex
    panicked,      \* the process died of a runtime panic
    \* Index.Add callers (SpecAdd)
    indexMu,       \* Index.mu of object 0: adder holding it, or 0
    addPc,         \* per adder: position in Add
    addID,         \* per adder: entry.ID of the entry being added
    addRet,        \* per adder: value returned
    \* Server
    nameFilters, catFilters, pathFilters,   \* s.filters
    lang,          \* s.lang
    lastResp,      \* the frame most recently written, and its connection
    \* observations
    last,          \* connection and verb of the last command executed
    listed,        \* entries that produced the rows of the last list frame
    listInflight,  \* runs in flight when the last list frame was produced
    lists,         \* number of list commands executed
    reqOp,         \* per dimension: the operator line given to the command
                   \* that appended the dimension's latest FilterExpr
    reindexCalls,  \* number of Reindex calls issued
    preSnap,       \* per caller: entries of the index when its call began
    postSnap,      \* per caller: entries of its index when its run completed
    addFloor,      \* per adder: largest ID returned before its Add began
    \* connections (handleConnection and its Parser)
    connState,     \* per connection: "new" before NewParser, "open" while
                   \* the command loop runs, "error" while a read error that
                   \* ParseCommand returned is being answered, "closed" once
                   \* the handler returned
    hdr,           \* per connection: the bytes NewParser has read as header
                   \* and version
    stack,         \* per connection: the stack of the ParseCommand call in
                   \* progress
    lastCmd,       \* the Command that ParseCommand returned last
    pushed,        \* the lines read since ParseCommand last returned
    lineCount,     \* number of lines the connections have sent
    errLine,       \* number of the line answered by the latest error frame
    clean,         \* per connection: its last session command was 0filters
    asked,         \* per connection: the language of its last lang command
                   \* that succeeded, "en" before any
    readErr,       \* per connection: its stream is broken, its reads fail
    \* main and the accept loop (Server.Start)
    mainPc,        \* main's position: "select" while it waits for a signal,
                   \* then the steps of its shutdown, "exited" once it has
                   \* returned and the process is gone
    rootDone,      \* main's ctx is cancelled
    srvRunning,    \* s.running
    listenerOpen,  \* s.listener has not been closed
    acceptPc,      \* position of the goroutine running Server.Start
    \* RunIndex
    bucket,        \* the bucket "run_index" of the database: key -> value
    incCalls,      \* per path: number of Increment calls that succeeded
    incErr,        \* the last Increment call returned an error
    freqArg,       \* the paths given to the last GetFrequencies call
    freqs,         \* the map the last GetFrequencies call returned
    \* Client (client/exe) on connection ClientConn
    sentLines,     \* the lines the client has written after its header
    given,         \* per line written: the argument it was formatted from
                   \* (arg TRUE), or the text written as it was given
    wire,          \* the bytes of the server's frames that are in the
                   \* client's socket and that no reader has taken
    arrived,       \* number of the line whose frame reached the socket last
    clientPc,      \* "idle", or the method whose readResponse is running
    callLine,      \* number of the verb line of the method called last
    ownFrame,      \* the frame the server wrote for that verb line
    outcome,       \* what the method that returned last returned
    callCount      \* number of client methods called

indexerVars == <<idxIndex, indexes, idxRunning, idxMu, indexCancel, ctxDone,
                 wgCount, wgWaiters, pc, runPaths, scan, execChan,
                 desktopChan, reindexRet, panicked, reindexCalls, preSnap,
                 postSnap>>
addVars == <<indexMu, addPc, addID, addRet, addFloor>>
serverVars == <<nameFilters, catFilters, pathFilters, lang>>
connVars == <<connState, hdr, stack, lastCmd, pushed, lineCount, errLine,
              clean, asked, readErr>>
obsVars == <<lastResp, last, listed, listInflight, lists, reqOp, connVars>>
mainVars == <<mainPc, rootDone, srvRunning, listenerOpen, acceptPc>>
runIndexVars == <<bucket, incCalls, incErr, freqArg, freqs>>
clientVars == <<sentLines, given, wire, arrived, clientPc, callLine, ownFrame,
                outcome, callCount>>
envVars == <<desktopFiles, cfgPath, spawnCount, lastSpawn, mainVars,
             runIndexVars, clientVars>>
vars == <<envVars, indexerVars, addVars, serverVars, obsVars>>

Adders == 1..MaxAdders

NoResp == [conn |-> 0, header |-> "", attrs |-> << >>, body |-> << >>]
NoLast == [conn |-> 0, verb |-> ""]
NoCmd == [conn |-> 0, Name |-> << >>, Args |-> << >>, line |-> 0]
IdleScan == [exec |-> "off", desk |-> "off", cons |-> "off",
             execPos |-> 0, deskPos |-> 0, execNil |-> FALSE, deskNil |-> FALSE]

\* NewIndexer: an empty Index, nothing running
InitIndexer ==
    /\ idxIndex = 0
    /\ indexes = [o \in Objs |-> NewIndex]
    /\ idxRunning = FALSE
    /\ idxMu = NoCaller
    /\ indexCancel = NoCaller
    /\ ctxDone = [r \in Callers |-> FALSE]
    /\ wgCount = 0
    /\ wgWaiters = 0
    /\ pc = [c \in Callers |-> "idle"]
    /\ runPaths = [r \in Callers |-> << >>]
    /\ scan = [r \in Callers |-> IdleScan]
    /\ execChan = [r \in Callers |-> << >>]
    /\ desktopChan = [r \in Callers |-> << >>]
    /\ reindexRet = [c \in Callers |-> -1]
    /\ panicked = FALSE
    /\ reindexCalls = 0
    /\ preSnap = [c \in Callers |-> {}]
    /\ postSnap = [c \in Callers |-> {}]

\* no Add call made
InitAdd ==
    /\ indexMu = 0
    /\ addPc = [a \in Adders |-> "idle"]
    /\ addID = [a \in Adders |-> 0]
    /\ addRet = [a \in Adders |-> 0]
    /\ addFloor = [a \in Adders |-> 0]

\* NewServer: no filters, language "en"; no command executed
InitServer ==
    /\ nameFilters = << >>
    /\ catFilters = << >>
    /\ pathFilters = << >>
    /\ lang = <<"e","n">>
    /\ lastResp = NoResp
    /\ last = NoLast
    /\ listed = {}
    /\ listInflight = {}
    /\ lists = 0
    /\ reqOp = [name |-> "", cat |-> "", path |-> ""]

\* the header of the protocol
TXT01 == <<"T","X","T","0","1">>

\* main waits in its select; the goroutine of Server.Start has just been
\* started if no connection exists yet, and is inside Accept otherwise
InitMain(st) ==
    /\ mainPc = "select"
    /\ rootDone = FALSE
    /\ listenerOpen = TRUE
    /\ srvRunning = (st # "none")
    /\ acceptPc = IF st = "none" THEN "start" ELSE "accept"

\* the paths whose runs are counted: two applications that are started, one
\* that never is, and the empty path
RunPaths == {<<"/","a">>, <<"/","b">>, <<"/","c">>, << >>}

\* NewRunIndex on a database file whose bucket holds the given values, left by
\* the successful Increment calls made on it earlier
OpenRunIndex(values, calls) ==
    /\ bucket = values
    /\ incCalls = [p \in RunPaths |-> IF p \in DOMAIN calls THEN calls[p] ELSE 0]
    /\ incErr = FALSE
    /\ freqArg = << >>
    /\ freqs = EmptyMap

\* no child process started and no line read; every connection is in state
\* st: "none" if it has not been accepted, "new" if its header is still to
\* be read, "open" if NewParser has accepted it
InitSockets(st) ==
    /\ spawnCount = 0
    /\ lastSpawn = << >>
    /\ connState = [c \in Conns |-> st]
    /\ hdr = [c \in Conns |-> IF st = "new" THEN << >> ELSE TXT01]
    /\ stack = [c \in Conns |-> << >>]
    /\ lastCmd = NoCmd
    /\ pushed = << >>
    /\ lineCount = 0
    /\ errLine = 0
    /\ clean = [c \in Conns |-> FALSE]
    /\ asked = [c \in Conns |-> <<"e","n">>]
    /\ readErr = [c \in Conns |-> FALSE]

\* what a client method returned before any has
NoOutcome == [call |-> "", err |-> << >>, apps |-> << >>]

\* NewClient has returned: the header is written, nothing else is
InitClient ==
    /\ sentLines = << >>
    /\ given = << >>
    /\ wire = << >>
    /\ arrived = 0
    /\ clientPc = "idle"
    /\ callLine = 0
    /\ ownFrame = NoResp
    /\ outcome = NoOutcome
    /\ callCount = 0

\* main in its select, the connections in state st, a RunIndex on a
\* database file that NewRunIndex has just created, and a new Client
InitConn(st) ==
    /\ InitMain(st)
    /\ InitSockets(st)
    /\ OpenRunIndex(EmptyMap, EmptyMap)
    /\ InitClient

\* the daemon at NewIndexer, on a machine with one displayed and one
\* NoDisplay .desktop file
Init ==
    /\ desktopFiles = <<FoxDesktop, HidDesktop>>
    /\ cfgPath = BinPath
    /\ InitIndexer /\ InitAdd /\ InitServer /\ InitConn("new")

\* ------------------------------------------------------- sync.WaitGroup
Min(a, b) == IF a < b THEN a ELSE b

\* callers parked inside indexWg.Wait()
Parked == {c \in Callers : pc[c] \in {"wait65", "wait112"}}

\* position after a Wait that returned
AfterWait(c) == IF pc[c] = "wait65" THEN "locked" ELSE "finish"

\* indexWg.Done(): a counter below zero panics; reaching zero releases as
\* many parked goroutines as there are registered waiters.  After the
\* unsynchronised reset of runIndexing the parked goroutines can outnumber
\* the registered waiters, and which of them wake is not determined.
WgDone ==
    IF wgCount = 0
    THEN /\ panicked' = TRUE
         /\ UNCHANGED <<wgCount, wgWaiters, pc, postSnap>>
    ELSE /\ wgCount' = wgCount - 1
         /\ panicked' = panicked
         /\ IF wgCount = 1 /\ wgWaiters > 0
            THEN \E S \in SUBSET Parked :
                    /\ Cardinality(S) = Min(wgWaiters, Cardinality(Parked))
                    /\ wgWaiters' = 0
                    /\ pc' = [c \in Callers |->
                                IF c \in S THEN AfterWait(c) ELSE pc[c]]
                    /\ postSnap' = [c \in Callers |->
                                IF c \in S /\ pc[c] = "wait112"
                                THEN GetAll(indexes[ObjOf(c)])
                                ELSE postSnap[c]]
            ELSE UNCHANGED <<wgWaiters, pc, postSnap>>

\* ------------------------------------------------------------- Indexer
\* runIndexing up to its cancel-and-wait: take idx.mu, cancel the previous
\* run if one is marked running, and enter indexWg.Wait()
RunLock(c, paths) ==
    /\ ~panicked
    /\ pc[c] = "idle"
    /\ idxMu = NoCaller
    /\ runPaths' = [runPaths EXCEPT ![c] = paths]
    /\ idxMu' = c
    /\ preSnap' = [preSnap EXCEPT ![c] = GetAll(indexes[idxIndex])]
    /\ IF idxRunning /\ indexCancel # NoCaller
       THEN /\ ctxDone' = [ctxDone EXCEPT ![indexCancel] = TRUE]
            /\ IF wgCount = 0
               THEN pc' = [pc EXCEPT ![c] = "locked"] /\ UNCHANGED wgWaiters
               ELSE /\ pc' = [pc EXCEPT ![c] = "wait65"]
                    /\ wgWaiters' = wgWaiters + 1
       ELSE /\ pc' = [pc EXCEPT ![c] = "locked"]
            /\ UNCHANGED <<ctxDone, wgWaiters>>
    /\ UNCHANGED <<idxIndex, indexes, idxRunning, indexCancel, wgCount, scan,
                   execChan, desktopChan, reindexRet, panicked, postSnap>>
    /\ UNCHANGED <<envVars, addVars, serverVars, obsVars>>

\* Indexer.Start, called once by main before the server exists: the
\* configured paths
Start ==
    /\ RunLock(StartCaller, cfgPath)
    /\ UNCHANGED reindexCalls

\* Indexer.Reindex, called on behalf of connection c (the server accepts
\* connections after main's Start has returned): the given paths, or the
\* configured ones if none is given
Reindex(c, paths) ==
    /\ pc[StartCaller] = "returned"
    /\ RunLock(c, IF Len(paths) > 0 THEN paths ELSE cfgPath)
    /\ reindexCalls' = reindexCalls + 1

\* runIndexing: new context, running = true, fresh Index, unlock
RunSetup(c) ==
    /\ ~panicked
    /\ pc[c] = "locked"
    /\ ctxDone' = [ctxDone EXCEPT ![c] = FALSE]
    /\ indexCancel' = c
    /\ idxRunning' = TRUE
    /\ indexes' = [indexes EXCEPT ![ObjOf(c)] = NewIndex]
    /\ idxIndex' = ObjOf(c)
    /\ idxMu' = NoCaller
    /\ pc' = [pc EXCEPT ![c] = "unlocked"]
    /\ UNCHANGED <<wgCount, wgWaiters, runPaths, scan, execChan, desktopChan,
                   reindexRet, panicked, reindexCalls, preSnap, postSnap>>
    /\ UNCHANGED <<envVars, addVars, serverVars, obsVars>>

\* runIndexing: the channels are made and idx.indexWg is overwritten with a
\* zero WaitGroup, outside idx.mu
RunResetWg(c) ==
    /\ ~panicked
    /\ pc[c] = "unlocked"
    /\ execChan' = [execChan EXCEPT ![c] = << >>]
    /\ desktopChan' = [desktopChan EXCEPT ![c] = << >>]
    /\ wgCount' = 0
    /\ wgWaiters' = 0
    /\ pc' = [pc EXCEPT ![c] = "spawn"]
    /\ UNCHANGED <<idxIndex, indexes, idxRunning, idxMu, indexCancel, ctxDone,
                   runPaths, scan, reindexRet, panicked, reindexCalls,
                   preSnap, postSnap>>
    /\ UNCHANGED <<envVars, addVars, serverVars, obsVars>>

\* runIndexing: indexWg.Add(1) and go, three times
RunSpawn(c) ==
    /\ ~panicked
    /\ pc[c] = "spawn"
    /\ wgCount' = wgCount + 3
    /\ scan' = [scan EXCEPT ![c] = [IdleScan EXCEPT !.exec = "on",
                                       !.desk = "on", !.cons = "on"]]
    /\ pc' = [pc EXCEPT ![c] = "spawned"]
    /\ UNCHANGED <<idxIndex, indexes, idxRunning, idxMu, indexCancel, ctxDone,
                   wgWaiters, runPaths, execChan, desktopChan, reindexRet,
                   panicked, reindexCalls, preSnap, postSnap>>
    /\ UNCHANGED <<envVars, addVars, serverVars, obsVars>>

\* runIndexing: indexWg.Wait() for the scanning to complete
RunWait(c) ==
    /\ ~panicked
    /\ pc[c] = "spawned"
    /\ IF wgCount = 0
       THEN /\ pc' = [pc EXCEPT ![c] = "finish"]
            /\ postSnap' = [postSnap EXCEPT ![c] = GetAll(indexes[ObjOf(c)])]
            /\ UNCHANGED wgWaiters
       ELSE /\ pc' = [pc EXCEPT ![c] = "wait112"]
            /\ wgWaiters' = wgWaiters + 1
            /\ UNCHANGED postSnap
    /\ UNCHANGED <<idxIndex, indexes, idxRunning, idxMu, indexCancel, ctxDone,
                   wgCount, runPaths, scan, execChan, desktopChan, reindexRet,
                   panicked, reindexCalls, preSnap>>
    /\ UNCHANGED <<envVars, addVars, serverVars, obsVars>>

\* runIndexing: running = false under idx.mu, return nil; Start returns
RunFinish(c) ==
    /\ ~panicked
    /\ pc[c] = "finish"
    /\ idxMu = NoCaller
    /\ idxRunning' = FALSE
    /\ pc' = [pc EXCEPT ![c] = IF c = StartCaller THEN "returned" ELSE "count"]
    /\ UNCHANGED <<idxIndex, indexes, idxMu, indexCancel, ctxDone, wgCount,
                   wgWaiters, runPaths, scan, execChan, desktopChan,
                   reindexRet, panicked, reindexCalls, preSnap, postSnap>>
    /\ UNCHANGED <<envVars, addVars, serverVars, obsVars>>

\* Reindex: idx.index.Count() under the read lock, return
ReindexCount(c) ==
    /\ ~panicked
    /\ pc[c] = "count"
    /\ idxMu = NoCaller
    /\ reindexRet' = [reindexRet EXCEPT ![c] = Count(indexes[idxIndex])]
    /\ pc' = [pc EXCEPT ![c] = "returned"]
    /\ UNCHANGED <<idxIndex, indexes, idxRunning, idxMu, indexCancel, ctxDone,
                   wgCount, wgWaiters, runPaths, scan, execChan, desktopChan,
                   panicked, reindexCalls, preSnap, postSnap>>
    /\ UNCHANGED <<envVars, addVars, serverVars, obsVars>>

\* --------------------------------------------------------------- scanners
\* scanPath inside ScanPaths: send the next ExecutableInfo; the send blocks
\* while the channel is full, and nothing else is consulted
ScanSend(r) ==
    /\ ~panicked
    /\ scan[r].exec = "on"
    /\ scan[r].execPos < Len(ScanPathsResults(runPaths[r]))
    /\ Len(execChan[r]) < ChanCap
    /\ execChan' = [execChan EXCEPT ![r] =
            Append(@, ScanPathsResults(runPaths[r])[scan[r].execPos + 1])]
    /\ scan' = [scan EXCEPT ![r].execPos = @ + 1]
    /\ UNCHANGED <<idxIndex, indexes, idxRunning, idxMu, indexCancel, ctxDone,
                   wgCount, wgWaiters, pc, runPaths, desktopChan, reindexRet,
                   panicked, reindexCalls, preSnap, postSnap>>
    /\ UNCHANGED <<envVars, addVars, serverVars, obsVars>>

\* ScanPaths returns: close(resultChan), then the goroutine's indexWg.Done()
ScanClose(r) ==
    /\ ~panicked
    /\ scan[r].exec = "on"
    /\ scan[r].execPos = Len(ScanPathsResults(runPaths[r]))
    /\ scan' = [scan EXCEPT ![r].exec = "done"]
    /\ WgDone
    /\ UNCHANGED <<idxIndex, indexes, idxRunning, idxMu, indexCancel, ctxDone,
                   runPaths, execChan, desktopChan, reindexRet, reindexCalls,
                   preSnap>>
    /\ UNCHANGED <<envVars, addVars, serverVars, obsVars>>

\* scanDesktopPath inside ScanDesktopFiles: send the next DesktopEntry
DesktopSend(r) ==
    /\ ~panicked
    /\ scan[r].desk = "on"
    /\ scan[r].deskPos < Len(desktopFiles)
    /\ Len(desktopChan[r]) < ChanCap
    /\ desktopChan' = [desktopChan EXCEPT ![r] =
            Append(@, desktopFiles[scan[r].deskPos + 1])]
    /\ scan' = [scan EXCEPT ![r].deskPos = @ + 1]
    /\ UNCHANGED <<idxIndex, indexes, idxRunning, idxMu, indexCancel, ctxDone,
                   wgCount, wgWaiters, pc, runPaths, execChan, reindexRet,
                   panicked, reindexCalls, preSnap, postSnap>>
    /\ UNCHANGED <<envVars, addVars, serverVars, obsVars>>

\* ScanDesktopFiles returns: close(resultChan), then indexWg.Done()
DesktopClose(r) ==
    /\ ~panicked
    /\ scan[r].desk = "on"
    /\ scan[r].deskPos = Len(desktopFiles)
    /\ scan' = [scan EXCEPT ![r].desk = "done"]
    /\ WgDone
    /\ UNCHANGED <<idxIndex, indexes, idxRunning, idxMu, indexCancel, ctxDone,
                   runPaths, execChan, desktopChan, reindexRet, reindexCalls,
                   preSnap>>
    /\ UNCHANGED <<envVars, addVars, serverVars, obsVars>>

\* ---------------------------------------------------------- processResults
\* The Index objects idx.index may denote to the consumer of run r: the read
\* is not ordered with a later runIndexing's write, so it yields the current
\* object or still the one installed by the consumer's own run.
AddTargets(r) == {idxIndex, ObjOf(r)}

\* idx.index.Add(entry) by the consumer
ConsumerAdd(o, entry) ==
    indexes' = [indexes EXCEPT ![o] = IndexAdd(@, entry)]

\* select: case <-ctx.Done(): return (and the goroutine's indexWg.Done())
ConsumerCancelled(r) ==
    /\ ~panicked
    /\ scan[r].cons = "on"
    /\ ctxDone[r]
    /\ scan' = [scan EXCEPT ![r].cons = "done"]
    /\ WgDone
    /\ UNCHANGED <<idxIndex, indexes, idxRunning, idxMu, indexCancel, ctxDone,
                   runPaths, execChan, desktopChan, reindexRet, reindexCalls,
                   preSnap>>
    /\ UNCHANGED <<envVars, addVars, serverVars, obsVars>>

\* select: case exec, ok := <-execChan with ok: build the Entry and Add it
ConsumerExec(r) ==
    /\ ~panicked
    /\ scan[r].cons = "on"
    /\ ~scan[r].execNil
    /\ execChan[r] # << >>
    /\ execChan' = [execChan EXCEPT ![r] = Tail(@)]
    /\ \E o \in AddTargets(r) : ConsumerAdd(o, ExecEntry(Head(execChan[r])))
    /\ UNCHANGED <<idxIndex, idxRunning, idxMu, indexCancel, ctxDone, wgCount,
                   wgWaiters, pc, runPaths, scan, desktopChan, reindexRet,
                   panicked, reindexCalls, preSnap, postSnap>>
    /\ UNCHANGED <<envVars, addVars, serverVars, obsVars>>

\* select: case desk, ok := <-desktopChan with ok: skip NoDisplay entries,
\* otherwise build the Entry and Add it
ConsumerDesktop(r) ==
    /\ ~panicked
    /\ scan[r].cons = "on"
    /\ ~scan[r].deskNil
    /\ desktopChan[r] # << >>
    /\ desktopChan' = [desktopChan EXCEPT ![r] = Tail(@)]
    /\ IF NoDisplayIn(desktopFiles, Head(desktopChan[r]).Path)
       THEN UNCHANGED <<indexes>>
       ELSE \E o \in AddTargets(r) :
                ConsumerAdd(o, DeskEntry(Head(desktopChan[r])))
    /\ UNCHANGED <<idxIndex, idxRunning, idxMu, indexCancel, ctxDone, wgCount,
                   wgWaiters, pc, runPaths, scan, execChan, reindexRet,
                   panicked, reindexCalls, preSnap, postSnap>>
    /\ UNCHANGED <<envVars, addVars, serverVars, obsVars>>

\* a processResults that leaves its loop as soon as one channel is closed
ConsumerExitEither(r, sc) ==
    IF sc.execNil \/ sc.deskNil
    THEN /\ scan' = [scan EXCEPT ![r] = [sc EXCEPT !.cons = "done"]]
         /\ WgDone
    ELSE /\ scan' = [scan EXCEPT ![r] = sc]
         /\ UNCHANGED <<wgCount, wgWaiters, pc, postSnap, panicked>>

\* the loop's exit test: both channels nil: break, return, indexWg.Done()
ConsumerExit(r, sc) ==
    IF sc.execNil /\ sc.deskNil
    THEN /\ scan' = [scan EXCEPT ![r] = [sc EXCEPT !.cons = "done"]]
         /\ WgDone
    ELSE /\ scan' = [scan EXCEPT ![r] = sc]
         /\ UNCHANGED <<wgCount, wgWaiters, pc, postSnap, panicked>>

\* select: case exec, ok := <-execChan with !ok: execChan = nil
ConsumerExecClosed(r) ==
    /\ ~panicked
    /\ scan[r].cons = "on"
    /\ ~scan[r].execNil
    /\ execChan[r] = << >>
    /\ scan[r].exec = "done"
    /\ ConsumerExit(r, [scan[r] EXCEPT !.execNil = TRUE])
    /\ UNCHANGED <<idxIndex, indexes, idxRunning, idxMu, indexCancel, ctxDone,
                   runPaths, execChan, desktopChan, reindexRet, reindexCalls,
                   preSnap>>
    /\ UNCHANGED <<envVars, addVars, serverVars, obsVars>>

\* select: case desk, ok := <-desktopChan with !ok: desktopChan = nil
ConsumerDesktopClosed(r) ==
    /\ ~panicked
    /\ scan[r].cons = "on"
    /\ ~scan[r].deskNil
    /\ desktopChan[r] = << >>
    /\ scan[r].desk = "done"
    /\ ConsumerExit(r, [scan[r] EXCEPT !.deskNil = TRUE])
    /\ UNCHANGED <<idxIndex, indexes, idxRunning, idxMu, indexCancel, ctxDone,
                   runPaths, execChan, desktopChan, reindexRet, reindexCalls,
                   preSnap>>
    /\ UNCHANGED <<envVars, addVars, serverVars, obsVars>>

\* ------------------------------------------------------------------ parser
TypeString == 0
TypeInt == 1
TypeBool == 2

Digits == <<"0","1","2","3","4","5","6","7","8","9">>
IsDigit(ch) == \E i \in 1..10 : Digits[i] = ch
DigitVal(ch) == (CHOOSE i \in 1..10 : Digits[i] = ch) - 1

RECURSIVE DecVal(_)
DecVal(ds) ==
    IF ds = << >> THEN 0
    ELSE DecVal(SubSeq(ds, 1, Len(ds) - 1)) * 10 + DigitVal(ds[Len(ds)])

\* digit strings without their leading zeros
RECURSIVE StripZeros(_)
StripZeros(ds) ==
    IF Len(ds) > 1 /\ ds[1] = "0" THEN StripZeros(Tail(ds)) ELSE ds

\* a <= b for digit strings of equal length
RECURSIVE DigitsLeq(_, _)
DigitsLeq(a, b) ==
    IF a = << >> THEN TRUE
    ELSE IF DigitVal(a[1]) < DigitVal(b[1]) THEN TRUE
    ELSE IF DigitVal(a[1]) > DigitVal(b[1]) THEN FALSE
    ELSE DigitsLeq(Tail(a), Tail(b))

\* the magnitudes of math.MaxInt64 and math.MinInt64
MaxInt64Digits == <<"9","2","2","3","3","7","2","0","3","6","8","5","4","7","7","5","8","0","7">>
MinInt64Digits == <<"9","2","2","3","3","7","2","0","3","6","8","5","4","7","7","5","8","0","8">>

\* the digit string fits the limit
InRange(ds, limit) ==
    LET z == StripZeros(ds)
    IN Len(z) < Len(limit) \/ (Len(z) = Len(limit) /\ DigitsLeq(z, limit))

\* strconv.ParseInt(line, 10, 64): an optional sign, then digits, within
\* the range of int64
ParseInt(line) ==
    LET signed == line # << >> /\ line[1] \in {"+", "-"}
        neg == signed /\ line[1] = "-"
        ds == IF signed THEN Tail(line) ELSE line
    IN IF ds # << >> /\ (\A i \in 1..Len(ds) : IsDigit(ds[i]))
          /\ InRange(ds, IF neg THEN MinInt64Digits ELSE MaxInt64Digits)
       THEN [ok |-> TRUE, val |-> IF neg THEN 0 - DecVal(ds) ELSE DecVal(ds)]
       ELSE [ok |-> FALSE, val |-> 0]

\* a Value that does not keep the word of an operator
MkValueNoWord(t, str, int, b) ==
    [Type |-> t, Str |-> IF t = TypeBool THEN << >> ELSE str,
     Int |-> int, Bool |-> b]

MkValue(t, str, int, b) == [Type |-> t, Str |-> str, Int |-> int, Bool |-> b]

\* parseValue on a trimmed line
ParseValue(line) ==
    IF HasPrefix(line, <<"\"">>)
    THEN [ok |-> TRUE, v |-> MkValue(TypeString, Tail(line), 0, FALSE)]
    ELSE IF line = <<"t">>
    THEN [ok |-> TRUE, v |-> MkValue(TypeBool, << >>, 0, TRUE)]
    ELSE IF line = <<"f">>
    THEN [ok |-> TRUE, v |-> MkValue(TypeBool, << >>, 0, FALSE)]
    ELSE IF line = <<"o","r">>
    THEN [ok |-> TRUE, v |-> MkValue(TypeBool, <<"o","r">>, 0, TRUE)]
    ELSE IF line = <<"a","n","d">>
    THEN [ok |-> TRUE, v |-> MkValue(TypeBool, <<"a","n","d">>, 0, FALSE)]
    ELSE IF line = <<"n","o","t">>
    THEN [ok |-> TRUE, v |-> MkValue(TypeBool, <<"n","o","t">>, 0, FALSE)]
    ELSE IF ParseInt(line).ok
    THEN [ok |-> TRUE, v |-> MkValue(TypeInt, << >>, ParseInt(line).val, FALSE)]
    ELSE [ok |-> FALSE, v |-> MkValue(TypeString, << >>, 0, FALSE)]

\* the args of a Command whose value lines are ls (every line parses)
ArgsOf(ls) == [i \in 1..Len(ls) |-> ParseValue(ls[i]).v]

\* ---------------------------------------------------------- filter engine
\* the loop of handleFilterName / handleFilterCat / handleFilterPath over
\* cmd.Args, starting from the handler's default operator
RECURSIVE BuildExpr(_, _)
BuildExpr(expr, args) ==
    IF args = << >> THEN expr
    ELSE LET arg == Head(args)
         IN BuildExpr(
              IF arg.Type = TypeString
              THEN [expr EXCEPT !.Values = Append(@, arg.Str)]
              ELSE IF arg.Type = TypeBool
              THEN [expr EXCEPT !.Op = IF arg.Bool THEN "or" ELSE "and"]
              ELSE expr,
              Tail(args))

\* Server.matchesNameFilter
MatchesNameFilter(entry, filter) ==
    \/ \E i \in 1..Len(filter.Values) :
          Contains(ToLower(entry.Name), ToLower(filter.Values[i]))
    \/ \E k \in DOMAIN entry.Names : \E i \in 1..Len(filter.Values) :
          Contains(ToLower(entry.Names[k]), ToLower(filter.Values[i]))

\* Server.matchesCatFilter
MatchesCatFilter(entry, filter) ==
    \E c \in 1..Len(entry.Categories) : \E i \in 1..Len(filter.Values) :
        EqualFold(entry.Categories[c], filter.Values[i])

\* Server.matchesPathFilter
MatchesPathFilter(entry, filter) ==
    \E i \in 1..Len(filter.Values) : Contains(entry.Path, filter.Values[i])

\* matchesFilters accepting an entry that one dimension alone accepts
MatchesFiltersAnyDimension(entry) ==
    \/ Len(nameFilters) + Len(catFilters) + Len(pathFilters) = 0
    \/ \E i \in 1..Len(nameFilters) : MatchesNameFilter(entry, nameFilters[i])
    \/ \E i \in 1..Len(catFilters) : MatchesCatFilter(entry, catFilters[i])
    \/ \E i \in 1..Len(pathFilters) : MatchesPathFilter(entry, pathFilters[i])

\* Server.matchesFilters
MatchesFilters(entry) ==
    /\ Len(nameFilters) > 0 =>
          \E i \in 1..Len(nameFilters) : MatchesNameFilter(entry, nameFilters[i])
    /\ Len(catFilters) > 0 =>
          \E i \in 1..Len(catFilters) : MatchesCatFilter(entry, catFilters[i])
    /\ Len(pathFilters) > 0 =>
          \E i \in 1..Len(pathFilters) : MatchesPathFilter(entry, pathFilters[i])

\* Server.filterEntries
FilterEntries(entries) == {e \in entries : MatchesFilters(e)}

\* handleList: the name written for an entry
DisplayName(entry) ==
    IF lang # << >> /\ lang \in DOMAIN entry.Names
    THEN entry.Names[lang]
    ELSE entry.Name

\* the orders in which a range over the entries map can deliver a set
Orders(S) ==
    {q \in [1..Cardinality(S) -> S] :
        \A i, j \in 1..Cardinality(S) : i # j => q[i] # q[j]}

\* handleList: the body row of an entry ("%d %s\n")
Row(entry) == [id |-> entry.ID, name |-> DisplayName(entry)]

\* strconv / fmt "%d"
RECURSIVE Itoa(_)
Itoa(n) ==
    IF n < 0 THEN <<"-">> \o Itoa(0 - n)
    ELSE IF n < 10 THEN << Digits[n + 1] >>
    ELSE Itoa(n \div 10) \o << Digits[(n % 10) + 1] >>

\* command verbs
VFilterName == <<"+","f","i","l","t","e","r","-","n","a","m","e">>
VFilterCat == <<"+","f","i","l","t","e","r","-","c","a","t">>
VFilterPath == <<"+","f","i","l","t","e","r","-","p","a","t","h">>
VResetFilters == <<"0","f","i","l","t","e","r","s">>
VList == <<"l","i","s","t">>
VRun == <<"r","u","n">>
VLang == <<"l","a","n","g">>

\* writeResponse: the TXT01 header, then the response; the response is kept
\* as its attribute lines <<key, value>> and its body rows
Frame(c, attrs, body) ==
    [conn |-> c, header |-> "TXT01", attrs |-> attrs, body |-> body]

\* a success response without its status line
BareFrame(c, verb) == Frame(c, << <<"cmd", verb>> >>, << >>)

\* the "cmd: <verb>\nstatus: 0\n\n" response of a handler
OkFrame(c, verb) == Frame(c, << <<"cmd", verb>>, <<"status", Itoa(0)>> >>, << >>)

\* writeError
ErrorFrame(c, cmd, errType, desc) ==
    Frame(c, << <<"error-cmd", cmd>>, <<"error", errType>>,
               <<"desc", desc>> >>, << >>)

\* the attribute keys as the handlers' format strings spell them
KeyText(key) ==
    CASE key = "cmd" -> <<"c","m","d">>
      [] key = "status" -> <<"s","t","a","t","u","s">>
      [] key = "lang" -> <<"l","a","n","g">>
      [] key = "idx" -> <<"i","d","x">>
      [] key = "pid" -> <<"p","i","d">>
      [] key = "list-len" -> <<"l","i","s","t","-","l","e","n">>
      [] key = "pages" -> <<"p","a","g","e","s">>
      [] key = "error-cmd" -> <<"e","r","r","o","r","-","c","m","d">>
      [] key = "error" -> <<"e","r","r","o","r">>
      [] key = "desc" -> <<"d","e","s","c">>

\* fmt.Sprintf of a handler's attribute block: one "key: value\n" per
\* attribute
AttrLines(frame) ==
    [i \in 1..Len(frame.attrs) |->
        KeyText(frame.attrs[i][1]) \o <<":", " ">> \o frame.attrs[i][2]]

\* handleList: one "%d %s\n" per row
RowLines(frame) ==
    [i \in 1..Len(frame.body) |->
        Itoa(frame.body[i].id) \o <<" ">> \o frame.body[i].name]

\* writeResponse: the lines (each ended by a line feed) that follow the
\* TXT01 header on the connection: the attribute lines, the "\n" that ends
\* every handler's format string, and the rows handleList appends to it
ResponseLines(frame) ==
    AttrLines(frame) \o << << >> >> \o RowLines(frame)

\* ------------------------------------------------------- command handlers
\* handleConnection serves connection c: the server accepts connections
\* after main's Start has returned, and a connection executes one command
\* at a time (its Reindex call, if any, is not in progress)
ConnReady(c) ==
    /\ ~panicked
    /\ pc[StartCaller] = "returned"
    /\ pc[c] \in {"idle", "returned"}

FilterCount == Len(nameFilters) + Len(catFilters) + Len(pathFilters)

\* the operator line a command was given: the line of its last Bool
\* argument (or / and / not / t / f), or the handler's default if it has none
OpWord(arg) ==
    IF arg.Str = <<"o","r">> THEN "or"
    ELSE IF arg.Str = <<"a","n","d">> THEN "and"
    ELSE IF arg.Str = <<"n","o","t">> THEN "not"
    ELSE IF arg.Bool THEN "t"
    ELSE "f"
RECURSIVE RequestedOp(_, _)
RequestedOp(op, args) ==
    IF args = << >> THEN op
    ELSE RequestedOp(IF Head(args).Type = TypeBool THEN OpWord(Head(args))
                     ELSE op,
                     Tail(args))

\* a +filter-* handler that appends its expression whatever it holds
AppendedAlways(filters, expr) == Append(filters, expr)

\* the filter list after a +filter-* handler has processed its expression
Appended(filters, expr) ==
    IF Len(expr.Values) > 0 THEN Append(filters, expr) ELSE filters

\* Server.handleFilterName
HandleFilterName(c, args) ==
    LET expr == BuildExpr([Values |-> << >>, Op |-> "or"], args)
    IN /\ ConnReady(c)
       /\ Len(expr.Values) > 0 => FilterCount < MaxFilters
       /\ nameFilters' = Appended(nameFilters, expr)
       /\ reqOp' = IF Len(expr.Values) > 0
                   THEN [reqOp EXCEPT !.name = RequestedOp("or", args)]
                   ELSE reqOp
       /\ lastResp' = OkFrame(c, VFilterName)
       /\ last' = [conn |-> c, verb |-> "+filter-name"]
       /\ UNCHANGED <<catFilters, pathFilters, lang, listed, listInflight, lists>>
       /\ UNCHANGED <<envVars, indexerVars, addVars>>

\* Server.handleFilterCat
HandleFilterCat(c, args) ==
    LET expr == BuildExpr([Values |-> << >>, Op |-> "and"], args)
    IN /\ ConnReady(c)
       /\ Len(expr.Values) > 0 => FilterCount < MaxFilters
       /\ catFilters' = Appended(catFilters, expr)
       /\ reqOp' = IF Len(expr.Values) > 0
                   THEN [reqOp EXCEPT !.cat = RequestedOp("and", args)]
                   ELSE reqOp
       /\ lastResp' = OkFrame(c, VFilterCat)
       /\ last' = [conn |-> c, verb |-> "+filter-cat"]
       /\ UNCHANGED <<nameFilters, pathFilters, lang, listed, listInflight, lists>>
       /\ UNCHANGED <<envVars, indexerVars, addVars>>

\* Server.handleFilterPath
HandleFilterPath(c, args) ==
    LET expr == BuildExpr([Values |-> << >>, Op |-> "or"], args)
    IN /\ ConnReady(c)
       /\ Len(expr.Values) > 0 => FilterCount < MaxFilters
       /\ pathFilters' = Appended(pathFilters, expr)
       /\ reqOp' = IF Len(expr.Values) > 0
                   THEN [reqOp EXCEPT !.path = RequestedOp("or", args)]
                   ELSE reqOp
       /\ lastResp' = OkFrame(c, VFilterPath)
       /\ last' = [conn |-> c, verb |-> "+filter-path"]
       /\ UNCHANGED <<nameFilters, catFilters, lang, listed, listInflight, lists>>
       /\ UNCHANGED <<envVars, indexerVars, addVars>>

\* Server.handleResetFilters
HandleResetFilters(c) ==
    /\ ConnReady(c)
    /\ nameFilters' = << >>
    /\ catFilters' = << >>
    /\ pathFilters' = << >>
    /\ lastResp' = OkFrame(c, VResetFilters)
    /\ last' = [conn |-> c, verb |-> "0filters"]
    /\ reqOp' = [name |-> "", cat |-> "", path |-> ""]
    /\ UNCHANGED <<lang, listed, listInflight, lists>>
    /\ UNCHANGED <<envVars, indexerVars, addVars>>

\* a handleLang that stores the language before it has checked its argument
HandleLangAssigns(c, args) ==
       /\ ConnReady(c)
       /\ lang' = IF Len(args) > 0 THEN args[1].Str ELSE << >>
       /\ IF Len(args) = 0 \/ args[1].Type # TypeString
          THEN lastResp' = ErrorFrame(c, VLang, <<"m","i","s","s","i","n","g"," ","p","a","r","a","m","e","t","e","r">>,
                        <<"l","a","n","g"," ","c","o","m","m","a","n","d"," ","r","e","q","u","i","r","e","s"," ","a"," ","s","t","r","i","n","g"," ","p","a","r","a","m","e","t","e","r">>)
          ELSE lastResp' = Frame(c, << <<"cmd", VLang>>, <<"status", Itoa(0)>>,
                                       <<"lang", args[1].Str>> >>, << >>)
       /\ last' = [conn |-> c, verb |-> "lang"]
       /\ UNCHANGED <<nameFilters, catFilters, pathFilters, listed,
                      listInflight, lists, reqOp>>
       /\ UNCHANGED <<envVars, indexerVars, addVars>>

\* Server.handleLang
HandleLang(c, args) ==
       /\ ConnReady(c)
       /\ IF Len(args) = 0 \/ args[1].Type # TypeString
          THEN /\ lastResp' = ErrorFrame(c, VLang, <<"m","i","s","s","i","n","g"," ","p","a","r","a","m","e","t","e","r">>,
                        <<"l","a","n","g"," ","c","o","m","m","a","n","d"," ","r","e","q","u","i","r","e","s"," ","a"," ","s","t","r","i","n","g"," ","p","a","r","a","m","e","t","e","r">>)
               /\ UNCHANGED lang
          ELSE /\ lang' = args[1].Str
               /\ lastResp' = Frame(c, << <<"cmd", VLang>>, <<"status", Itoa(0)>>,
                                          <<"lang", args[1].Str>> >>, << >>)
       /\ last' = [conn |-> c, verb |-> "lang"]
       /\ UNCHANGED <<nameFilters, catFilters, pathFilters, listed,
                      listInflight, lists, reqOp>>
       /\ UNCHANGED <<envVars, indexerVars, addVars>>

\* runs whose runIndexing has begun and whose indexWg.Wait() has not returned
InFlight ==
    {r \in Callers : pc[r] \in {"wait65", "locked", "unlocked", "spawn",
                                "spawned", "wait112"}}

\* Server.handleList: GetIndex (read lock of idx.mu), GetAll, filterEntries,
\* one row per entry in the map's iteration order, one frame
HandleList(c) ==
    LET filtered == FilterEntries(GetAll(indexes[idxIndex]))
    IN /\ ConnReady(c)
       /\ idxMu = NoCaller
       /\ \E q \in Orders(filtered) :
             lastResp' = Frame(c,
                 << <<"list-len", Itoa(Cardinality(filtered))>>,
                    <<"pages", Itoa(1)>> >>,
                 [i \in 1..Cardinality(filtered) |-> Row(q[i])])
       /\ listed' = filtered
       /\ listInflight' = InFlight
       /\ last' = [conn |-> c, verb |-> "list"]
       /\ UNCHANGED <<nameFilters, catFilters, pathFilters, lang, reqOp>>
       /\ UNCHANGED <<envVars, indexerVars, addVars>>

\* Server.handleRun: the terminal emulator of the configuration
CfgTerminal == <<"x","t","e","r","m">>

\* strings.Fields: the maximal runs of non-space characters
WhiteSpace == {" ", "\t", "\n", "\r"}
RECURSIVE Fields(_)
Fields(s) ==
    IF s = << >> THEN << >>
    ELSE IF s[1] \in WhiteSpace THEN Fields(Tail(s))
    ELSE LET rest == Fields(Tail(s))
         IN IF Len(s) > 1 /\ s[2] \notin WhiteSpace
            THEN << <<s[1]>> \o Head(rest) >> \o Tail(rest)
            ELSE << <<s[1]>> >> \o rest

\* the process IDs the system gives a started child
Pids == {41, 42}

\* Server.handleRun: the argv of exec.Command for an entry
RunArgv(entry) ==
    IF entry.Terminal THEN <<CfgTerminal, <<"-","e">>, entry.Exec>>
    ELSE Fields(entry.Exec)

\* Server.handleRun; execCmd.Start() succeeds or fails as the system decides
HandleRun(c, args) ==
    /\ ConnReady(c)
    /\ idxMu = NoCaller
    /\ last' = [conn |-> c, verb |-> "run"]
    /\ IF Len(args) = 0 \/ args[1].Type # TypeInt
       THEN /\ lastResp' = ErrorFrame(c, VRun, <<"m","i","s","s","i","n","g"," ","i","d">>,
                               <<"r","u","n"," ","c","o","m","m","a","n","d"," ","r","e","q","u","i","r","e","s"," ","a","n"," ","i","d"," ","p","a","r","a","m","e","t","e","r">>)
            /\ UNCHANGED <<spawnCount, lastSpawn>>
       ELSE LET got == IndexGet(indexes[idxIndex], args[1].Int)
            IN IF ~got.ok
               THEN /\ lastResp' = ErrorFrame(c, VRun, <<"i","n","d","e","x"," ","n","o","t"," ","f","o","u","n","d">>,
                         <<"C","a","n","'","t"," ","r","u","n"," ","a","p","p","l","i","c","a","t","i","o","n",","," ","r","e","q","u","e","s","t","e","d"," ","i","n","d","e","x"," ","n","o","t"," ","f","o","u","n","d",".">>)
                    /\ UNCHANGED <<spawnCount, lastSpawn>>
               ELSE IF ~got.entry.Terminal /\ Fields(got.entry.Exec) = << >>
               THEN /\ lastResp' = ErrorFrame(c, VRun, <<"i","n","v","a","l","i","d"," ","e","x","e","c">>,
                                       <<"E","m","p","t","y"," ","e","x","e","c"," ","c","o","m","m","a","n","d">>)
                    /\ UNCHANGED <<spawnCount, lastSpawn>>
               ELSE \/ /\ lastResp' = ErrorFrame(c, VRun, <<"e","x","e","c","u","t","i","o","n"," ","f","a","i","l","e","d">>,
                                          <<"e","x","e","c",":"," ","n","o","t"," ","f","o","u","n","d">>)
                       /\ UNCHANGED <<spawnCount, lastSpawn>>
                    \/ \E pid \in Pids :
                          /\ spawnCount' = spawnCount + 1
                          /\ lastSpawn' = RunArgv(got.entry)
                          /\ lastResp' = Frame(c,
                                << <<"cmd", VRun>>,
                                   <<"idx", Itoa(args[1].Int)>>,
                                   <<"status", Itoa(0)>>,
                                   <<"pid", Itoa(pid)>> >>, << >>)
    /\ UNCHANGED <<nameFilters, catFilters, pathFilters, lang, listed,
                   listInflight, lists, reqOp>>
    /\ UNCHANGED <<desktopFiles, cfgPath, mainVars, runIndexVars, clientVars,
                   indexerVars, addVars>>

\* executeCommand with a default case that writes nothing
SilentUnknown(c, name) ==
    /\ ConnReady(c)
    /\ last' = [conn |-> c, verb |-> "unknown"]
    /\ UNCHANGED <<nameFilters, catFilters, pathFilters, lang, listed,
                   listInflight, lists, reqOp, lastResp>>
    /\ UNCHANGED <<envVars, indexerVars, addVars>>

\* executeCommand, default case: a verb the parser knows and no case handles
UnknownCommand(c, name) ==
    /\ ConnReady(c)
    /\ lastResp' = ErrorFrame(c, name, <<"u","n","k","n","o","w","n"," ","c","o","m","m","a","n","d">>,
                              <<"C","o","m","m","a","n","d"," ","n","o","t"," ","r","e","c","o","g","n","i","z","e","d">>)
    /\ last' = [conn |-> c, verb |-> "unknown"]
    /\ UNCHANGED <<nameFilters, catFilters, pathFilters, lang, listed,
                   listInflight, lists, reqOp>>
    /\ UNCHANGED <<envVars, indexerVars, addVars>>

\* ------------------------------------------------------------ connections
\* strings.TrimSpace
RECURSIVE TrimLeft(_)
TrimLeft(s) ==
    IF s # << >> /\ s[1] \in WhiteSpace THEN TrimLeft(Tail(s)) ELSE s
RECURSIVE TrimRight(_)
TrimRight(s) ==
    IF s # << >> /\ s[Len(s)] \in WhiteSpace
    THEN TrimRight(SubSeq(s, 1, Len(s) - 1))
    ELSE s
TrimSpace(s) == TrimRight(TrimLeft(s))

\* verbs of parseCommand that executeCommand has no case for
VFilterNameAlias == <<"f","i","l","t","e","r","-","n","a","m","e">>
VSaveConf == <<"s","a","v","e","c","o","n","f">>
VListNext == <<"l","i","s","t","-","n","e","x","t">>
VReindex == <<"r","e","i","n","d","e","x">>

\* parseCommand: the known commands
KnownCommands ==
    {VFilterNameAlias, VFilterName, VFilterCat, VFilterPath, VResetFilters,
     VList, VRun, VLang, VSaveConf, VListNext, VReindex}

\* parseCommand: the command a line names, or "" (here << >>)
ParseCommandName(line) ==
    IF TrimSpace(line) \in KnownCommands THEN TrimSpace(line) ELSE << >>

\* NewParser on the bytes a connection sends first: io.ReadFull of 5 bytes,
\* then the test of the first three
NewParser(bytes) ==
    IF Len(bytes) < 5 THEN [ok |-> FALSE, err |-> <<"i","n","v","a","l","i","d"," ","h","e","a","d","e","r">>]
    ELSE IF SubSeq(bytes, 1, 3) # <<"T","X","T">>
    THEN [ok |-> FALSE,
          err |-> <<"u","n","s","u","p","p","o","r","t","e","d"," ","f","o","r","m","a","t",":"," ">> \o SubSeq(bytes, 1, 3)]
    ELSE [ok |-> TRUE, err |-> << >>]

\* handleConnection up to its command loop
ReadHeader(c, bytes) ==
    /\ pc[StartCaller] = "returned"
    /\ connState[c] = "new"
    /\ IF NewParser(bytes).ok
       THEN /\ connState' = [connState EXCEPT ![c] = "open"]
            /\ UNCHANGED <<lastResp, last>>
       ELSE /\ connState' = [connState EXCEPT ![c] = "closed"]
            /\ lastResp' = ErrorFrame(c, <<"p","a","r","s","e","r">>, <<"i","n","v","a","l","i","d"," ","h","e","a","d","e","r">>,
                                      NewParser(bytes).err)
            /\ last' = [conn |-> c, verb |-> "header"]
    /\ hdr' = [hdr EXCEPT ![c] = SubSeq(bytes, 1, Min(5, Len(bytes)))]
    /\ UNCHANGED <<stack, lastCmd, pushed, lineCount, errLine, clean, asked, readErr>>
    /\ UNCHANGED <<listed, listInflight, lists, reqOp>>
    /\ UNCHANGED <<envVars, indexerVars, addVars, serverVars>>

\* ParseCommand: reader.ReadString('\n') delivers a line to the loop
LineArrives(c, line) ==
    /\ connState[c] = "open"
    /\ ~readErr[c]
    /\ lineCount < MaxLines
    /\ lineCount' = lineCount + 1

\* ParseCommand: an empty line or a comment is skipped
SkipLine(c, line) ==
    /\ LineArrives(c, line)
    /\ TrimSpace(line) = << >> \/ HasPrefix(TrimSpace(line), <<"#">>)
    /\ pushed' = Append(pushed, line)
    /\ UNCHANGED <<connState, hdr, stack, lastCmd, errLine, clean, asked, readErr>>
    /\ UNCHANGED <<lastResp, last, listed, listInflight, lists, reqOp>>
    /\ UNCHANGED <<envVars, indexerVars, addVars, serverVars>>

\* the line reaches parseCommand / parseValue
Token(line) ==
    /\ TrimSpace(line) # << >>
    /\ ~HasPrefix(TrimSpace(line), <<"#">>)

\* ParseCommand: a value is pushed on the stack
PushLine(c, line) ==
    /\ LineArrives(c, line)
    /\ Token(line)
    /\ ParseCommandName(line) = << >>
    /\ ParseValue(TrimSpace(line)).ok
    /\ stack' = [stack EXCEPT ![c] = Append(@, ParseValue(TrimSpace(line)).v)]
    /\ pushed' = Append(pushed, line)
    /\ UNCHANGED <<connState, hdr, lastCmd, errLine, clean, asked, readErr>>
    /\ UNCHANGED <<lastResp, last, listed, listInflight, lists, reqOp>>
    /\ UNCHANGED <<envVars, indexerVars, addVars, serverVars>>

\* a ParseCommand whose stack outlives the call
KeptStack(c) == stack[c]

\* ParseCommand: stack := make([]Value, 0) at the start of every call
NewStack(c) == << >>

\* handleConnection leaving its loop after a parse error
ReturnAfterParseError == "closed"

\* handleConnection: continue after the writeError of a parse error
AfterParseError == "open"

\* ParseCommand returns "parse error: ..." and handleConnection answers it
\* and continues with the next ParseCommand call
BadLine(c, line) ==
    /\ LineArrives(c, line)
    /\ Token(line)
    /\ ParseCommandName(line) = << >>
    /\ ~ParseValue(TrimSpace(line)).ok
    /\ ConnReady(c)
    /\ lastResp' = ErrorFrame(c, <<"p","a","r","s","e","r">>, <<"p","a","r","s","e"," ","e","r","r","o","r">>,
                       <<"p","a","r","s","e"," ","e","r","r","o","r",":"," ","c","a","n","n","o","t"," ","p","a","r","s","e"," ","v","a","l","u","e",":"," ">> \o TrimSpace(line))
    /\ last' = [conn |-> c, verb |-> "parser"]
    /\ stack' = [stack EXCEPT ![c] = NewStack(c)]
    /\ pushed' = << >>
    /\ errLine' = lineCount'
    /\ connState' = [connState EXCEPT ![c] = AfterParseError]
    /\ UNCHANGED <<hdr, lastCmd, clean, asked, readErr>>
    /\ UNCHANGED <<listed, listInflight, lists, reqOp>>
    /\ UNCHANGED <<envVars, indexerVars, addVars, serverVars>>

\* ParseCommand returns the Command of a verb line with the stack as its
\* args; the next call starts with a new stack
CommandLine(c, line, verbs) ==
    /\ LineArrives(c, line)
    /\ Token(line)
    /\ ParseCommandName(line) \in verbs
    /\ lastCmd' = [conn |-> c, Name |-> ParseCommandName(line),
                   Args |-> stack[c], line |-> lineCount']
    /\ stack' = [stack EXCEPT ![c] = NewStack(c)]
    /\ pushed' = << >>
    /\ UNCHANGED <<connState, hdr>>

\* the number of the line just read is noted if its frame is an error frame
NoteError ==
    errLine' = IF \E i \in 1..Len(lastResp'.attrs) :
                       lastResp'.attrs[i][1] = "error"
               THEN lineCount'
               ELSE errLine

\* handleConnection: ParseCommand returns a list command, executeCommand
\* calls handleList
ListLine(c, line) ==
    /\ CommandLine(c, line, {VList})
    /\ HandleList(c)
    /\ NoteError
    /\ UNCHANGED <<lists, clean, asked, readErr>>

\* the language a connection has asked for once its lang command with the
\* arguments args has been executed
AskedAfter(c, args) ==
    IF Len(args) > 0 /\ args[1].Type = TypeString
    THEN [asked EXCEPT ![c] = args[1].Str]
    ELSE asked

\* executeCommand, case "+filter-name"
FilterNameLine(c, line) ==
    /\ CommandLine(c, line, {VFilterName})
    /\ HandleFilterName(c, stack[c])
    /\ NoteError
    /\ clean' = [clean EXCEPT ![c] = FALSE]
    /\ UNCHANGED <<asked, readErr>>

\* executeCommand, case "run"
RunLine(c, line) ==
    /\ CommandLine(c, line, {VRun})
    /\ HandleRun(c, stack[c])
    /\ NoteError
    /\ UNCHANGED <<clean, asked, readErr>>

\* executeCommand, case "lang"
LangLine(c, line) ==
    /\ CommandLine(c, line, {VLang})
    /\ HandleLang(c, stack[c])
    /\ NoteError
    /\ asked' = AskedAfter(c, stack[c])
    /\ UNCHANGED <<clean, readErr>>

\* executeCommand, default case: the verbs of parseCommand that no case names
UnhandledLine(c, line) ==
    /\ CommandLine(c, line, {VFilterNameAlias, VSaveConf, VListNext,
                             VReindex})
    /\ UnknownCommand(c, ParseCommandName(line))
    /\ NoteError
    /\ UNCHANGED <<clean, asked, readErr>>

\* handleConnection: ParseCommand, then executeCommand with its Command
ExecuteCommand(c, line) ==
    \/ FilterNameLine(c, line)
    \/ /\ CommandLine(c, line, {VFilterCat})
       /\ HandleFilterCat(c, stack[c])
       /\ NoteError
       /\ clean' = [clean EXCEPT ![c] = FALSE]
       /\ UNCHANGED <<asked, readErr>>
    \/ /\ CommandLine(c, line, {VFilterPath})
       /\ HandleFilterPath(c, stack[c])
       /\ NoteError
       /\ clean' = [clean EXCEPT ![c] = FALSE]
       /\ UNCHANGED <<asked, readErr>>
    \/ /\ CommandLine(c, line, {VResetFilters})
       /\ HandleResetFilters(c)
       /\ NoteError
       /\ clean' = [clean EXCEPT ![c] = TRUE]
       /\ UNCHANGED <<asked, readErr>>
    \/ ListLine(c, line)
    \/ RunLine(c, line)
    \/ LangLine(c, line)
    \/ UnhandledLine(c, line)

\* ParseCommand returns io.EOF (the client closed its end; values pushed and
\* not followed by a verb are dropped): handleConnection leaves its loop and
\* closes the connection
ConnEOF(c) ==
    /\ connState[c] = "open"
    /\ connState' = [connState EXCEPT ![c] = "closed"]
    /\ stack' = [stack EXCEPT ![c] = << >>]
    /\ pushed' = << >>
    /\ UNCHANGED <<hdr, lastCmd, lineCount, errLine, clean, asked, readErr>>
    /\ UNCHANGED <<lastResp, last, listed, listInflight, lists, reqOp>>
    /\ UNCHANGED <<envVars, indexerVars, addVars, serverVars>>

\* the stream of a connection breaks (the peer resets it): from now on a
\* Read of the connection delivers no line; it returns an error other than
\* io.EOF (ReadFails) or, as the system decides, io.EOF (ConnEOF)
StreamFails(c) ==
    /\ connState[c] = "open"
    /\ ~readErr[c]
    /\ readErr' = [readErr EXCEPT ![c] = TRUE]
    /\ UNCHANGED <<connState, hdr, stack, lastCmd, pushed, lineCount, errLine,
                   clean, asked>>
    /\ UNCHANGED <<lastResp, last, listed, listInflight, lists, reqOp>>
    /\ UNCHANGED <<envVars, indexerVars, addVars, serverVars>>

\* ParseCommand: ReadString returns an error other than io.EOF, and
\* ParseCommand returns it (its stack is dropped)
ReadFails(c) ==
    /\ connState[c] = "open"
    /\ readErr[c]
    /\ connState' = [connState EXCEPT ![c] = "error"]
    /\ stack' = [stack EXCEPT ![c] = NewStack(c)]
    /\ pushed' = << >>
    /\ UNCHANGED <<hdr, lastCmd, lineCount, errLine, clean, asked, readErr>>
    /\ UNCHANGED <<lastResp, last, listed, listInflight, lists, reqOp>>
    /\ UNCHANGED <<envVars, indexerVars, addVars, serverVars>>

\* handleConnection: err != nil and err != io.EOF: writeError(conn, "parser",
\* "parse error", err.Error()) and continue with the next ParseCommand call
AnswerReadError(c) ==
    /\ connState[c] = "error"
    /\ lastResp' = ErrorFrame(c, <<"p","a","r","s","e","r">>, <<"p","a","r","s","e"," ","e","r","r","o","r">>,
                              <<"r","e","a","d",":"," ","c","o","n","n","e","c","t","i","o","n"," ","r","e","s","e","t"," ","b","y"," ","p","e","e","r">>)
    /\ last' = [conn |-> c, verb |-> "parser"]
    /\ connState' = [connState EXCEPT ![c] = AfterParseError]
    /\ UNCHANGED <<hdr, stack, lastCmd, pushed, lineCount, errLine, clean,
                   asked, readErr>>
    /\ UNCHANGED <<listed, listInflight, lists, reqOp>>
    /\ UNCHANGED <<envVars, indexerVars, addVars, serverVars>>

\* ------------------------------------------------------------ Index.Add
\* the Entry an adder passes to Add
AdderEntry(a) ==
    ExecEntry([Name |-> <<"x">> \o Itoa(a), Path |-> <<"/","x">> \o Itoa(a)])

MaxReturned == IF \E a \in Adders : addPc[a] = "returned"
               THEN CHOOSE m \in {addRet[a] : a \in {b \in Adders : addPc[b] = "returned"}} :
                        \A a \in {b \in Adders : addPc[b] = "returned"} : addRet[a] <= m
               ELSE 0

\* Add without its idx.mu.Lock()
MuFreeUnlocked == TRUE

\* idx.mu.Lock() can be taken
MuFree == indexMu = 0

\* Add: idx.mu.Lock()
AddLock(a) ==
    /\ addPc[a] = "idle"
    /\ MuFree
    /\ indexMu' = a
    /\ addPc' = [addPc EXCEPT ![a] = "locked"]
    /\ addFloor' = [addFloor EXCEPT ![a] = MaxReturned]
    /\ UNCHANGED <<addID, addRet>>
    /\ UNCHANGED <<envVars, indexerVars, serverVars, obsVars>>

\* Add: entry.ID = idx.nextID
AddAssignID(a) ==
    /\ addPc[a] = "locked"
    /\ addID' = [addID EXCEPT ![a] = indexes[0].nextID]
    /\ addPc' = [addPc EXCEPT ![a] = "assigned"]
    /\ UNCHANGED <<indexMu, addRet, addFloor>>
    /\ UNCHANGED <<envVars, indexerVars, serverVars, obsVars>>

\* an Add that leaves idx.nextID as it is
AddIncrementSkipped(a) ==
    /\ addPc[a] = "assigned"
    /\ addPc' = [addPc EXCEPT ![a] = "incremented"]
    /\ UNCHANGED <<indexMu, addID, addRet, addFloor>>
    /\ UNCHANGED <<envVars, indexerVars, serverVars, obsVars>>

\* Add: idx.nextID++
AddIncrement(a) ==
    /\ addPc[a] = "assigned"
    /\ indexes' = [indexes EXCEPT ![0].nextID = @ + 1]
    /\ addPc' = [addPc EXCEPT ![a] = "incremented"]
    /\ UNCHANGED <<indexMu, addID, addRet, addFloor>>
    /\ UNCHANGED <<idxIndex, idxRunning, idxMu, indexCancel, ctxDone, wgCount,
                   wgWaiters, pc, runPaths, scan, execChan, desktopChan,
                   reindexRet, panicked, reindexCalls, preSnap, postSnap>>
    /\ UNCHANGED <<envVars, serverVars, obsVars>>

\* Add: idx.entries[entry.ID] = entry
AddStore(a) ==
    /\ addPc[a] = "incremented"
    /\ indexes' = [indexes EXCEPT ![0].entries =
            [id \in (DOMAIN @) \cup {addID[a]} |->
                IF id = addID[a] THEN [AdderEntry(a) EXCEPT !.ID = addID[a]]
                ELSE @[id]]]
    /\ addPc' = [addPc EXCEPT ![a] = "stored"]
    /\ UNCHANGED <<indexMu, addID, addRet, addFloor>>
    /\ UNCHANGED <<idxIndex, idxRunning, idxMu, indexCancel, ctxDone, wgCount,
                   wgWaiters, pc, runPaths, scan, execChan, desktopChan,
                   reindexRet, panicked, reindexCalls, preSnap, postSnap>>
    /\ UNCHANGED <<envVars, serverVars, obsVars>>

\* Add: return entry.ID, with the deferred idx.mu.Unlock()
AddReturn(a) ==
    /\ addPc[a] = "stored"
    /\ addRet' = [addRet EXCEPT ![a] = addID[a]]
    /\ indexMu' = 0
    /\ addPc' = [addPc EXCEPT ![a] = "returned"]
    /\ UNCHANGED <<addID, addFloor>>
    /\ UNCHANGED <<envVars, indexerVars, serverVars, obsVars>>

\* ------------------------------------------------------- specifications
\* the steps of runIndexing after its lock and of Reindex after runIndexing
RunStep ==
    \/ \E c \in Callers : RunSetup(c)
    \/ \E c \in Callers : RunResetWg(c)
    \/ \E c \in Callers : RunSpawn(c)
    \/ \E c \in Callers : RunWait(c)
    \/ \E c \in Callers : RunFinish(c)
    \/ \E c \in Conns : ReindexCount(c)

\* the steps of the goroutines of every run that do not depend on the
\* machine having .desktop files or on a run being cancelled
ScanStep ==
    \/ \E r \in Callers : ScanSend(r)
    \/ \E r \in Callers : ScanClose(r)
    \/ \E r \in Callers : DesktopClose(r)
    \/ \E r \in Callers : ConsumerExec(r)
    \/ \E r \in Callers : ConsumerExecClosed(r)
    \/ \E r \in Callers : ConsumerDesktopClosed(r)

\* the steps that deliver a .desktop file
DesktopStep ==
    \/ \E r \in Callers : DesktopSend(r)
    \/ \E r \in Callers : ConsumerDesktop(r)

\* a list command while the indexer runs
ListCommand(c) ==
    /\ lists < MaxLists
    /\ HandleList(c)
    /\ lists' = lists + 1
    /\ UNCHANGED connVars

\* the indexer of one daemon observed by list commands, from NewIndexer on;
\* with a single Reindex call, made after Start has returned, no run is
\* cancelled
NextObserve ==
    \/ Start
    \/ \E c \in Conns, p \in PathChoices :
          reindexCalls < MaxObservedReindex /\ Reindex(c, p)
    \/ RunStep
    \/ ScanStep
    \/ DesktopStep
    \/ \E c \in Conns : ListCommand(c)

SpecObserve == Init /\ [][NextObserve]_vars

\* the first indexing run of a daemon (main's Start), on the machine of Init
\* with its displayed and its NoDisplay .desktop file, followed by the list
\* commands of the connections the server then accepts
NextMerge ==
    \/ Start
    \/ RunSetup(StartCaller)
    \/ RunResetWg(StartCaller)
    \/ RunSpawn(StartCaller)
    \/ RunWait(StartCaller)
    \/ RunFinish(StartCaller)
    \/ ScanStep
    \/ DesktopStep
    \/ \E c \in Conns : ListCommand(c)

SpecMerge == Init /\ [][NextMerge]_vars

\* concurrent Index.Add calls on one Index
NextAdd ==
    \/ \E a \in Adders : AddLock(a)
    \/ \E a \in Adders : AddAssignID(a)
    \/ \E a \in Adders : AddIncrement(a)
    \/ \E a \in Adders : AddStore(a)
    \/ \E a \in Adders : AddReturn(a)

SpecAdd == Init /\ [][NextAdd]_vars

\* ------------------------------------------------------- serving daemon
\* value lines of the commands a client sends
StrLine(str) == <<"\"">> \o str
NameTerms == << <<"f","o">>, <<"I">> >>
CatTerms == << <<"n","e","t">>, <<"W","E","B">> >>
PathTerms == << <<"/","a">>, <<"l","s">> >>
ArgChoices(terms) ==
    LET one == << StrLine(terms[1]) >>
        other == << StrLine(terms[2]), StrLine(terms[1]) >>
        both == << StrLine(terms[1]), StrLine(terms[2]) >>
    IN {s \o o : s \in {<< >>, one, both},
                 o \in {<< >>, << <<"o","r">> >>, << <<"a","n","d">> >>,
                        << <<"n","o","t">> >>}}
       \cup {<< <<"a","n","d">> >> \o both, << <<"7">> >> \o other,
             one \o << <<"f">> >>}
PathArgChoices ==
    {<< >>, << StrLine(PathTerms[1]) >>,
     << StrLine(PathTerms[1]), StrLine(PathTerms[2]) >>,
     << StrLine(PathTerms[2]), <<"a","n","d">> >>}
LangChoices == {<< StrLine(<<"r","u">>) >>, << StrLine(<<"e","n">>) >>,
                << >>, << <<"7">> >>}

RECURSIVE AddAll(_, _)
AddAll(ix, es) ==
    IF es = << >> THEN ix ELSE AddAll(IndexAdd(ix, Head(es)), Tail(es))

\* the entries processResults builds from the scanners' results
ExecEntries(paths) ==
    [i \in 1..Len(ScanPathsResults(paths)) |-> ExecEntry(ScanPathsResults(paths)[i])]
DeskEntries(files) ==
    LET shown == SelectSeq(files, LAMBDA f : ~f.NoDisplay)
    IN [i \in 1..Len(shown) |-> DeskEntry(shown[i])]

\* the Index a completed run leaves when the candidates arrive in the order
\* given
IndexOf(order) == AddAll(NewIndex, order)

\* main's Start has returned on a machine with the given .desktop files and
\* configured paths: the index holds every displayable candidate (here with
\* the executable scanner's results arriving first); no command executed
Serving(files, paths) ==
    /\ desktopFiles = files
    /\ cfgPath = paths
    /\ indexes = [o \in Objs |->
            IF o = ObjOf(StartCaller)
            THEN IndexOf(ExecEntries(cfgPath) \o DeskEntries(desktopFiles))
            ELSE NewIndex]
    /\ postSnap = [c \in Callers |->
            IF c = StartCaller THEN GetAll(indexes[ObjOf(StartCaller)]) ELSE {}]
    /\ idxIndex = ObjOf(StartCaller)
    /\ idxRunning = FALSE
    /\ idxMu = NoCaller
    /\ indexCancel = StartCaller
    /\ ctxDone = [r \in Callers |-> FALSE]
    /\ wgCount = 0
    /\ wgWaiters = 0
    /\ pc = [c \in Callers |-> IF c = StartCaller THEN "returned" ELSE "idle"]
    /\ runPaths = [r \in Callers |-> IF r = StartCaller THEN cfgPath ELSE << >>]
    /\ scan = [r \in Callers |-> IF r = StartCaller
                  THEN [exec |-> "done", desk |-> "done", cons |-> "done",
                        execPos |-> Len(ScanPathsResults(cfgPath)),
                        deskPos |-> Len(desktopFiles),
                        execNil |-> TRUE, deskNil |-> TRUE]
                  ELSE IdleScan]
    /\ execChan = [r \in Callers |-> << >>]
    /\ desktopChan = [r \in Callers |-> << >>]
    /\ reindexRet = [c \in Callers |-> -1]
    /\ panicked = FALSE
    /\ reindexCalls = 0
    /\ preSnap = [c \in Callers |-> {}]
    /\ InitAdd
    /\ InitServer

\* a serving daemon on a machine with one executable and three .desktop files
InitSession ==
    Serving(<<FoxDesktop, GimDesktop, HidDesktop>>, AltPath) /\ InitConn("open")

\* a serving daemon on a machine with two executables and no .desktop file
InitServing == Serving(<< >>, BinPath) /\ InitConn("open")

\* the indexer of a serving daemon under Reindex calls that may overlap; the
\* connections are numbered in the order of their reindex commands, and the
\* machine has no .desktop file to deliver
Next ==
    \/ \E c \in Conns :
          reindexCalls < MaxReindex /\ c = reindexCalls + 1 /\ Reindex(c, << >>)
    \/ RunStep
    \/ ScanStep
    \/ \E r \in Callers : ConsumerCancelled(r)

Spec == InitServing /\ [][Next]_vars

\* the filter and list commands a connection executes
FilterCommand(c) ==
    \/ \E ls \in ArgChoices(NameTerms) :
          HandleFilterName(c, ArgsOf(ls)) /\ UNCHANGED connVars
    \/ \E ls \in ArgChoices(CatTerms) :
          HandleFilterCat(c, ArgsOf(ls)) /\ UNCHANGED connVars
    \/ \E ls \in PathArgChoices :
          HandleFilterPath(c, ArgsOf(ls)) /\ UNCHANGED connVars
    \/ HandleResetFilters(c) /\ UNCHANGED connVars
    \/ HandleList(c) /\ UNCHANGED <<lists, connVars>>

\* one connection, which leaves the language alone, to a serving daemon
NextSession == FilterCommand(1)

SpecSession == InitSession /\ [][NextSession]_vars

\* every connection to a serving daemon
NextShared ==
    \/ \E c \in Conns : FilterCommand(c)
    \/ \E c \in Conns, ls \in LangChoices :
          HandleLang(c, ArgsOf(ls)) /\ UNCHANGED connVars

SpecShared == InitSession /\ [][NextShared]_vars

\* a serving daemon whose index holds Firefox (1), Firefox (Wayland) (2) and
\* Gimp (3), and no executable
InitApps ==
    /\ Serving(<<FirefoxDesktop, WaylandDesktop, GimpDesktop>>, << >>)
    /\ InitConn("open")

\* the name terms a client looks applications up with
AppTerms == {<<"f","i"," ","f","o","x">>, <<"f","i","r","e">>,
             <<"W","A","Y">>, <<"g","i","m","p">>}

\* one connection that filters the applications by name and lists them
NextApps ==
    \/ \E t \in AppTerms :
          HandleFilterName(1, ArgsOf(<< StrLine(t) >>)) /\ UNCHANGED connVars
    \/ HandleResetFilters(1) /\ UNCHANGED connVars
    \/ HandleList(1) /\ UNCHANGED <<lists, connVars>>

SpecApps == InitApps /\ [][NextApps]_vars

\* a daemon whose index holds Fox (1) and Top (2, run in a terminal), with
\* connections accepted whose headers are still to be read
InitConnections ==
    /\ Serving(<<FoxDesktop, TopDesktop>>, << >>)
    /\ InitConn("new")

\* the first bytes a client sends: the header, another family, and a stream
\* that ends early
HeaderChoices ==
    {TXT01, <<"B","I","N","0","1">>, <<"T","X","T">>}

\* the lines a client sends (without their line feed)
ConnLines ==
    {StrLine(<<"f","o">>), <<"1">>, <<"9">>, <<"n","o","t">>, <<"#","c">>,
     <<"b","o","g","u","s">>,
     VFilterName, VFilterCat, VFilterPath, VResetFilters, VList, VRun, VLang,
     VSaveConf}

\* one connection, line by line
NextConn ==
    \/ \E h \in HeaderChoices : ReadHeader(1, h)
    \/ \E l \in ConnLines : SkipLine(1, l)
    \/ \E l \in ConnLines : PushLine(1, l)
    \/ \E l \in ConnLines : BadLine(1, l)
    \/ \E l \in ConnLines : ExecuteCommand(1, l)
    \/ ConnEOF(1)

SpecConn == InitConnections /\ [][NextConn]_vars

\* the parser state of every connection is left alone
ParserIdle ==
    UNCHANGED <<connState, hdr, stack, lastCmd, pushed, lineCount, errLine>>

\* every connection filters the applications by name, resets the filters and
\* lists, while the index is not modified
NextReset ==
    \/ \E c \in Conns, t \in {<<"f","i","r","e">>, <<"g","i","m","p">>} :
          /\ HandleFilterName(c, ArgsOf(<< StrLine(t) >>))
          /\ clean' = [clean EXCEPT ![c] = FALSE]
          /\ UNCHANGED <<asked, readErr>>
          /\ ParserIdle
    \/ \E c \in Conns :
          /\ HandleResetFilters(c)
          /\ clean' = [clean EXCEPT ![c] = TRUE]
          /\ UNCHANGED <<asked, readErr>>
          /\ ParserIdle
    \/ \E c \in Conns : HandleList(c) /\ UNCHANGED <<lists, connVars>>

SpecReset == InitApps /\ [][NextReset]_vars

\* the headers of SpecConn and a header of another version
VersionChoices == HeaderChoices \cup {<<"T","X","T","0","2">>}

\* connections that send a header of any kind, then list commands
NextHeader ==
    \/ \E c \in Conns, h \in VersionChoices : ReadHeader(c, h)
    \/ \E c \in Conns : ListLine(c, VList)
    \/ \E c \in Conns : ConnEOF(c)

SpecHeader == InitConnections /\ [][NextHeader]_vars

\* a daemon whose index holds Fox and Top, with connections whose headers
\* have been accepted
InitParse ==
    /\ Serving(<<FoxDesktop, TopDesktop>>, << >>)
    /\ InitConn("open")

\* lines of every kind of the request grammar, one of them a string that
\* ends with a space
ParseLines ==
    {StrLine(<<"a">>), StrLine(<<"a"," ">>), <<"-","7">>, <<"t">>, <<"f">>, <<"o","r">>, <<"a","n","d">>,
     <<"n","o","t">>, <<"#","c">>, << >>, <<"b","o","g","u","s">>, VList}

\* the parser of one connection, whose commands are list commands
NextParse ==
    \/ \E l \in ParseLines : SkipLine(1, l)
    \/ \E l \in ParseLines : PushLine(1, l)
    \/ \E l \in ParseLines : BadLine(1, l)
    \/ \E l \in ParseLines : ListLine(1, l)

SpecParse == InitParse /\ [][NextParse]_vars

\* a daemon whose index holds Web (1, Exec "web %u"), Doc (2, no Exec) and
\* Tty (3, no Exec, run in a terminal)
InitRun ==
    /\ Serving(<<UrlDesktop, DocDesktop, TtyDesktop>>, << >>)
    /\ InitConn("open")

\* the lines of a client that starts applications: the three IDs of the
\* index, an ID the index does not hold, a string, and the verb
RunLines == {<<"1">>, <<"2">>, <<"3">>, <<"9">>, StrLine(<<"w">>), VRun}

\* one connection that sends run commands
NextRun ==
    \/ \E l \in RunLines : PushLine(1, l)
    \/ \E l \in RunLines : RunLine(1, l)

SpecRun == InitRun /\ [][NextRun]_vars

\* a daemon whose index holds Fox (1, named Lis under ru) and Gim (2)
InitLang ==
    /\ Serving(<<FoxDesktop, GimDesktop>>, << >>)
    /\ InitConn("open")

\* the lines of clients that choose a language and list
LangLines == {StrLine(<<"r","u">>), StrLine(<<"e","n">>), <<"7">>, VLang, VList}

\* every connection sends lang and list commands
NextLang ==
    \/ \E c \in Conns, l \in LangLines : PushLine(c, l)
    \/ \E c \in Conns, l \in LangLines : LangLine(c, l)
    \/ \E c \in Conns, l \in LangLines : ListLine(c, l)

SpecLang == InitLang /\ [][NextLang]_vars

\* the lines of a client that pages through a list, re-indexes and filters
\* with the verb of the client library
VerbLines ==
    {StrLine(<<"f","i","r","e">>), <<"0">>, <<"1">>, <<"9">>,
     VListNext, VReindex, VFilterNameAlias, VFilterName, VList}

\* one connection to the daemon of InitApps, line by line
NextVerbs ==
    \/ \E l \in VerbLines : PushLine(1, l)
    \/ \E l \in VerbLines : FilterNameLine(1, l)
    \/ \E l \in VerbLines : ListLine(1, l)
    \/ \E l \in VerbLines : UnhandledLine(1, l)

SpecVerbs == InitApps /\ [][NextVerbs]_vars

\* the steps of the handler goroutine of connection c
HandlerStep(c) ==
    \/ ListLine(c, VList)
    \/ ReadFails(c)
    \/ AnswerReadError(c)
    \/ ConnEOF(c)

\* connections of the daemon of InitParse that list, and whose streams may
\* break or end
NextIO ==
    \/ \E c \in Conns : StreamFails(c)
    \/ \E c \in Conns : HandlerStep(c)

\* a handler goroutine that can take a step of its loop takes one (the Go
\* scheduler runs every runnable goroutine); the client is not obliged to
\* send lines or to close, nor the system to turn a failing read into an
\* end of stream: only the handling of a read error is fair
SpecIO ==
    /\ InitParse
    /\ [][NextIO]_vars
    /\ \A c \in Conns : WF_vars(ReadFails(c)) /\ WF_vars(AnswerReadError(c))

\* a serving daemon on the machine of Init: two executables under the
\* configured path, one under the other, a displayed and a NoDisplay
\* .desktop file
InitReindex ==
    /\ Serving(<<FoxDesktop, HidDesktop>>, BinPath)
    /\ InitConn("open")

\* no Reindex call is in progress
NoRunInProgress == \A c \in Conns : pc[c] \in {"idle", "returned"}

\* Reindex calls that do not overlap, with the given or the default paths,
\* and the goroutines of their runs
NextReindex ==
    \/ \E c \in Conns, p \in PathChoices :
          /\ reindexCalls < MaxObservedReindex
          /\ NoRunInProgress
          /\ Reindex(c, p)
    \/ RunStep
    \/ ScanStep
    \/ DesktopStep

SpecReindex == InitReindex /\ [][NextReindex]_vars

\* a new Indexer on a machine with one executable under the configured
\* path and no .desktop file
InitOverlap ==
    /\ desktopFiles = << >>
    /\ cfgPath = AltPath
    /\ InitIndexer /\ InitAdd /\ InitServer /\ InitConn("new")

\* Reindex(ctx, nil) by a user of the Indexer, whatever the other calls are
\* doing
ReindexNow(c) ==
    /\ RunLock(c, cfgPath)
    /\ reindexCalls' = reindexCalls + 1

\* three calls of runIndexing in progress at once on one Indexer: the first
\* Reindex call arrives when the goroutines of Start's run have finished and
\* Start is about to return, the second at any time after the first
NextOverlap ==
    \/ Start
    \/ pc[StartCaller] = "finish" /\ ReindexNow(1)
    \/ pc[1] # "idle" /\ ReindexNow(2)
    \/ RunStep
    \/ ScanStep
    \/ \E r \in Callers : ConsumerCancelled(r)

SpecOverlap == InitOverlap /\ [][NextOverlap]_vars

\* ------------------------------------------------------------- RunIndex
\* number of Increment calls counted per path beyond what the database held
MaxIncrements == 2
\* the run count of /a in a database that has been in use
OldRuns == 255

\* binary.BigEndian.PutUint64 (k bytes of n, most significant first)
RECURSIVE BigEndian(_, _)
BigEndian(n, k) ==
    IF k = 0 THEN << >> ELSE BigEndian(n \div 256, k - 1) \o << n % 256 >>
PutUint64(n) == BigEndian(n, 8)

\* binary.BigEndian.Uint64
RECURSIVE Uint64(_)
Uint64(b) ==
    IF b = << >> THEN 0
    ELSE Uint64(SubSeq(b, 1, Len(b) - 1)) * 256 + b[Len(b)]

\* the elements of a slice
Range(q) == {q[i] : i \in 1..Len(q)}

\* a GetFrequencies that reports only the keys the bucket holds
FrequenciesStored(paths) ==
    [p \in Range(paths) \cap DOMAIN bucket |-> Uint64(bucket[p])]

\* GetFrequencies: the map it builds, one key per path
Frequencies(paths) ==
    [p \in Range(paths) |->
        IF p \in DOMAIN bucket THEN Uint64(bucket[p]) ELSE 0]

\* what the RunIndex leaves alone
RunIndexFrame ==
    /\ UNCHANGED <<desktopFiles, cfgPath, spawnCount, lastSpawn, mainVars,
                   clientVars>>
    /\ UNCHANGED <<indexerVars, addVars, serverVars, obsVars>>

\* RunIndex.Increment in its db.Update transaction: the count read (0 for
\* a key the bucket does not hold), incremented and put; bbolt's Put refuses
\* an empty key, and the transaction is rolled back.  A count wraps at 2^64,
\* which no sequence of calls the model makes reaches.
Increment(path) ==
    /\ incCalls[path] % OldRuns < MaxIncrements
    /\ IF path = << >>
       THEN /\ incErr' = TRUE
            /\ UNCHANGED <<bucket, incCalls>>
       ELSE LET count == IF path \in DOMAIN bucket
                         THEN Uint64(bucket[path]) ELSE 0
            IN /\ bucket' = [k \in DOMAIN bucket \cup {path} |->
                               IF k = path THEN PutUint64(count + 1)
                               ELSE bucket[k]]
               /\ incCalls' = [incCalls EXCEPT ![path] = @ + 1]
               /\ incErr' = FALSE
    /\ UNCHANGED <<freqArg, freqs>>
    /\ RunIndexFrame

\* RunIndex.GetFrequencies
GetFrequencies(paths) ==
    /\ freqArg' = paths
    /\ freqs' = Frequencies(paths)
    /\ UNCHANGED <<bucket, incCalls, incErr>>
    /\ RunIndexFrame

\* the path slices given to GetFrequencies: nil, one path, two, one with a
\* path twice and a path never run, and the empty path
FreqArgs ==
    {<< >>, << <<"/","a">> >>, << <<"/","a">>, <<"/","b">> >>,
     << <<"/","c">>, <<"/","a">>, <<"/","c">> >>, << << >> >>}

\* a RunIndex on a new database file, or on one in which /a has been counted
\* OldRuns times
InitFreq ==
    /\ Serving(<< >>, << >>)
    /\ InitMain("open")
    /\ InitSockets("open")
    /\ InitClient
    /\ \/ OpenRunIndex(EmptyMap, EmptyMap)
       \/ OpenRunIndex(<<"/","a">> :> PutUint64(OldRuns),
                       <<"/","a">> :> OldRuns)

\* calls on one RunIndex
NextFreq ==
    \/ \E p \in RunPaths : Increment(p)
    \/ \E q \in FreqArgs : GetFrequencies(q)

SpecFreq == InitFreq /\ [][NextFreq]_vars

\* ------------------------------------------------------------- shutdown
\* the process exists: main has not returned
ProcessAlive == mainPc # "exited"

\* what main and the accept loop leave alone
MainFrame ==
    /\ UNCHANGED <<desktopFiles, cfgPath, spawnCount, lastSpawn, runIndexVars,
                   clientVars>>
    /\ UNCHANGED <<idxIndex, indexes, indexCancel, wgCount, wgWaiters, pc,
                   runPaths, scan, execChan, desktopChan, reindexRet, panicked,
                   reindexCalls, preSnap, postSnap>>
    /\ UNCHANGED <<addVars, serverVars>>
    /\ UNCHANGED <<lastResp, last, listed, listInflight, lists, reqOp>>
    /\ UNCHANGED <<hdr, stack, lastCmd, pushed, lineCount, errLine, clean,
                   asked, readErr>>

\* main: case sig := <-sigChan: cancel().  The context of main's Start run is
\* a child of ctx and is cancelled with it.
MainCancel ==
    /\ mainPc = "select"
    /\ pc[StartCaller] = "returned"
    /\ mainPc' = "cancelled"
    /\ rootDone' = TRUE
    /\ ctxDone' = [ctxDone EXCEPT ![StartCaller] = TRUE]
    /\ UNCHANGED <<idxRunning, idxMu, srvRunning, listenerOpen, acceptPc,
                   connState>>
    /\ MainFrame

\* Indexer.Stop: idx.mu.Lock(), cancel the run marked running, running =
\* false, and enter indexWg.Wait()
IndexerStopLock ==
    /\ mainPc = "cancelled"
    /\ idxMu = NoCaller
    /\ idxMu' = StartCaller
    /\ ctxDone' = IF idxRunning /\ indexCancel # NoCaller
                  THEN [ctxDone EXCEPT ![indexCancel] = TRUE]
                  ELSE ctxDone
    /\ idxRunning' = FALSE
    /\ mainPc' = "stopwait"
    /\ UNCHANGED <<rootDone, srvRunning, listenerOpen, acceptPc, connState>>
    /\ MainFrame

\* Indexer.Stop: indexWg.Wait() returns once the counter is zero; the
\* deferred idx.mu.Unlock()
IndexerStopWait ==
    /\ mainPc = "stopwait"
    /\ wgCount = 0
    /\ idxMu' = NoCaller
    /\ mainPc' = "idxStopped"
    /\ UNCHANGED <<ctxDone, idxRunning, rootDone, srvRunning, listenerOpen,
                   acceptPc, connState>>
    /\ MainFrame

\* Server.Stop: running = false, listener.Close(); the connections that
\* were accepted are not touched
ServerStop ==
    /\ mainPc = "idxStopped"
    /\ srvRunning' = FALSE
    /\ listenerOpen' = FALSE
    /\ mainPc' = "srvStopped"
    /\ UNCHANGED <<ctxDone, idxRunning, idxMu, rootDone, acceptPc, connState>>
    /\ MainFrame

\* main prints "ade-exe-ctld stopped" and returns: the process ends with
\* whatever goroutines are still running
MainReturn ==
    /\ mainPc = "srvStopped"
    /\ mainPc' = "exited"
    /\ UNCHANGED <<ctxDone, idxRunning, idxMu, rootDone, srvRunning,
                   listenerOpen, acceptPc, connState>>
    /\ MainFrame

\* Server.Start: running = true, before its loop
ServerStart ==
    /\ ProcessAlive
    /\ acceptPc = "start"
    /\ srvRunning' = TRUE
    /\ acceptPc' = "select"
    /\ UNCHANGED <<ctxDone, idxRunning, idxMu, mainPc, rootDone, listenerOpen,
                   connState>>
    /\ MainFrame

\* Server.Start: select { case <-ctx.Done(): return ctx.Err(); default: },
\* then the call of listener.Accept()
AcceptSelect ==
    /\ ProcessAlive
    /\ acceptPc = "select"
    /\ acceptPc' = IF rootDone THEN "returned" ELSE "accept"
    /\ UNCHANGED <<ctxDone, idxRunning, idxMu, mainPc, rootDone, srvRunning,
                   listenerOpen, connState>>
    /\ MainFrame

\* Server.Start: Accept returns a connection: go s.handleConnection(conn)
Accept(c) ==
    /\ ProcessAlive
    /\ acceptPc = "accept"
    /\ listenerOpen
    /\ connState[c] = "none"
    /\ connState' = [connState EXCEPT ![c] = "new"]
    /\ acceptPc' = "select"
    /\ UNCHANGED <<ctxDone, idxRunning, idxMu, mainPc, rootDone, srvRunning,
                   listenerOpen>>
    /\ MainFrame

\* Server.Start: Accept returns the error of a closed listener: return nil
\* if the server is not running, continue otherwise
AcceptFails ==
    /\ ProcessAlive
    /\ acceptPc = "accept"
    /\ ~listenerOpen
    /\ acceptPc' = IF ~srvRunning THEN "returned" ELSE "select"
    /\ UNCHANGED <<ctxDone, idxRunning, idxMu, mainPc, rootDone, srvRunning,
                   listenerOpen, connState>>
    /\ MainFrame

\* the steps of main's shutdown after the signal
ShutdownStep ==
    \/ IndexerStopLock
    \/ IndexerStopWait
    \/ ServerStop
    \/ MainReturn

\* the steps of the accept loop that need no client
AcceptLoopStep ==
    \/ ServerStart
    \/ AcceptSelect
    \/ AcceptFails

\* a daemon whose Start has returned and whose server goroutine has just
\* been started: no connection accepted yet
InitShutdown ==
    /\ Serving(<<FoxDesktop, TopDesktop>>, << >>)
    /\ InitConn("none")

\* the daemon from the start of its server to the end of its process:
\* clients connect, send their header and list commands and may close; a
\* signal may arrive at any time
NextShutdown ==
    \/ MainCancel
    \/ ShutdownStep
    \/ AcceptLoopStep
    \/ \E c \in Conns : Accept(c)
    \/ \E c \in Conns : ProcessAlive /\ ReadHeader(c, TXT01)
    \/ \E c \in Conns : ProcessAlive /\ ListLine(c, VList)
    \/ \E c \in Conns : ProcessAlive /\ ConnEOF(c)

\* main and the goroutine of Server.Start take their steps (the Go scheduler
\* runs every runnable goroutine); nothing obliges a signal to arrive or a
\* client to connect, to send or to close
SpecShutdown ==
    /\ InitShutdown
    /\ [][NextShutdown]_vars
    /\ WF_vars(ShutdownStep)
    /\ WF_vars(AcceptLoopStep)

\* ---------------------------------------------------------------- Client
\* the connection of the Client
ClientConn == 1
\* number of Client methods called
MaxCalls == 2

\* FormatArgument (client.go; formatArgument of ade-exe-cli is the same
\* function) with a default case that returns the argument as it is
FormatArgumentBare(arg) == TrimSpace(arg)

\* FormatArgument: the line (without its line feed) written for an argument
FormatArgument(arg) ==
    LET a == TrimSpace(arg)
    IN IF HasPrefix(a, <<"\"">>) THEN a
       ELSE IF a = <<"t">> \/ a = <<"f">> THEN a
       ELSE IF a \in {<<"o","r">>, <<"a","n","d">>, <<"n","o","t">>} THEN a
       ELSE IF ParseInt(a).ok THEN a
       ELSE <<"\"">> \o a

\* the bytes of lines, each ended by its line feed
RECURSIVE LineBytes(_)
LineBytes(ls) ==
    IF ls = << >> THEN << >>
    ELSE Head(ls) \o <<"\n">> \o LineBytes(Tail(ls))

\* writeResponse: conn.Write of the header, conn.Write of the response
FrameBytes(frame) == TXT01 \o LineBytes(ResponseLines(frame))

\* bufio.Reader.ReadString('\n'): the length of the line that ends with the
\* first line feed, 0 if the bytes hold none
LineEnd(b) ==
    IF \E i \in 1..Len(b) : b[i] = "\n"
    THEN CHOOSE i \in 1..Len(b) :
            b[i] = "\n" /\ \A j \in 1..(i - 1) : b[j] # "\n"
    ELSE 0

\* strings.SplitN(line, ":", 2): the position of the first colon, 0 if none
Colon(line) ==
    IF \E i \in 1..Len(line) : line[i] = ":"
    THEN CHOOSE i \in 1..Len(line) :
            line[i] = ":" /\ \A j \in 1..(i - 1) : line[j] # ":"
    ELSE 0

\* attrs[key] = value
MapPut(m, key, value) ==
    [k \in DOMAIN m \cup {key} |-> IF k = key THEN value ELSE m[k]]

\* readResponse waits for bytes
Blocked == [state |-> "blocked", attrs |-> EmptyMap, body |-> << >>,
            rest |-> << >>]

\* readResponse returns attrs, body and a nil error; rest are the bytes it
\* has not consumed
Parsed(attrs, body, rest) ==
    [state |-> "ok", attrs |-> attrs, body |-> body, rest |-> rest]

\* readResponse, the loop: b are the bytes that follow in the stream, eof
\* says that the stream ends after them; Round is one round of the loop on
\* the bytes that follow its line, which are computed once
RECURSIVE ReadLoop(_, _, _, _, _)
ReadLoop(b, eof, attrs, body, seenBodyHeader) ==
    LET n == LineEnd(b)
        line == SubSeq(b, 1, n)
        t == TrimSpace(line)
        Round(rest) ==
            IF n = 0
            THEN \* ReadString waits for a line feed; at io.EOF the loop
                 \* breaks
                 IF eof THEN Parsed(attrs, body, << >>) ELSE Blocked
            ELSE IF t = <<"b","o","d","y",":">>
            THEN ReadLoop(rest, eof, attrs, body, TRUE)
            ELSE IF line = <<"\n">>
            THEN IF rest = << >> /\ ~eof
                 THEN Blocked                  \* isEndOfResponse: Peek(1)
                 ELSE IF rest # << >> /\ rest[1] = "\n"
                 THEN Parsed(attrs, body, Tail(rest))
                 ELSE IF Len(rest) < 6 /\ ~eof
                 THEN Blocked        \* isBlankLineBeforeBodyHeader: Peek(6)
                 ELSE IF Len(rest) >= 6
                         /\ SubSeq(rest, 1, 5) = <<"b","o","d","y",":">>
                 THEN ReadLoop(rest, eof, attrs, body, seenBodyHeader)
                 ELSE ReadLoop(rest, eof, attrs,
                               IF seenBodyHeader THEN body \o line ELSE body,
                               seenBodyHeader)
            ELSE IF ~seenBodyHeader
            THEN IF t = << >> \/ Colon(t) = 0
                 THEN ReadLoop(rest, eof, attrs, body, seenBodyHeader)
                 ELSE ReadLoop(rest, eof,
                          MapPut(attrs, TrimSpace(SubSeq(t, 1, Colon(t) - 1)),
                                 TrimSpace(SubSeq(t, Colon(t) + 1, Len(t)))),
                          body, seenBodyHeader)
            ELSE ReadLoop(rest, eof, attrs, body \o line, seenBodyHeader)
    IN CHOOSE r \in {Round(rest) : rest \in {SubSeq(b, n + 1, Len(b))}} : TRUE

\* readResponse on a new bufio.Reader: io.ReadFull of the 5 header bytes,
\* then the loop
ReadResponse(b, eof) ==
    IF Len(b) < 5
    THEN IF eof
         THEN [state |-> "error", attrs |-> EmptyMap, body |-> << >>,
               rest |-> << >>]
         ELSE Blocked
    ELSE ReadLoop(SubSeq(b, 6, Len(b)), eof, EmptyMap, << >>, FALSE)

\* strings.Split(s, "\n")
RECURSIVE Split(_)
Split(s) ==
    IF LineEnd(s) = 0 THEN << s >>
    ELSE << SubSeq(s, 1, LineEnd(s) - 1) >>
         \o Split(SubSeq(s, LineEnd(s) + 1, Len(s)))

\* strings.Join(parts, " ")
RECURSIVE Join(_)
Join(parts) ==
    IF parts = << >> THEN << >>
    ELSE IF Len(parts) = 1 THEN parts[1]
    ELSE parts[1] \o <<" ">> \o Join(Tail(parts))

\* Client.List: the Applications of the body's lines
RECURSIVE Applications(_)
Applications(lines) ==
    IF lines = << >> THEN << >>
    ELSE LET parts == Fields(TrimSpace(Head(lines)))
         IN IF Len(parts) < 2 \/ ~ParseInt(parts[1]).ok
            THEN Applications(Tail(lines))
            ELSE << [ID |-> ParseInt(parts[1]).val,
                     Name |-> Join(Tail(parts))] >>
                 \o Applications(Tail(lines))

\* what List, Run and RunInTerminal return on the result r of readResponse
CallResult(call, r) ==
    IF r.state = "error"
    THEN [call |-> call, err |-> <<"f","a","i","l","e","d"," ","t","o"," ","r","e","a","d"," ","r","e","s","p","o","n","s","e">>, apps |-> << >>]
    ELSE IF <<"e","r","r","o","r">> \in DOMAIN r.attrs
    THEN [call |-> call, err |-> <<"s","e","r","v","e","r"," ","e","r","r","o","r",":"," ">> \o r.attrs[<<"e","r","r","o","r">>],
          apps |-> << >>]
    ELSE [call |-> call, err |-> << >>,
          apps |-> IF call = "List"
                   THEN Applications(Split(TrimSpace(r.body)))
                   ELSE << >>]

\* what the Client's methods and the socket leave alone
ClientFrame ==
    /\ UNCHANGED <<desktopFiles, cfgPath, spawnCount, lastSpawn, mainVars,
                   runIndexVars>>
    /\ UNCHANGED <<indexerVars, addVars, serverVars, obsVars>>

\* a method that writes n lines may be called: c.mu is free (no method is
\* in progress) and the daemon is there to take the lines
CanCall(n) ==
    /\ clientPc = "idle"
    /\ ProcessAlive
    /\ callCount < MaxCalls
    /\ Len(sentLines) + n <= MaxLines

\* Client.SendCommand: one formatted line per argument, then the command
\* name; no response is read
SendCommand(cmdName, args) ==
    /\ CanCall(Len(args) + 1)
    /\ sentLines' = sentLines
                    \o [i \in 1..Len(args) |-> FormatArgument(args[i])]
                    \o << cmdName >>
    /\ given' = given
                \o [i \in 1..Len(args) |-> [arg |-> TRUE, text |-> args[i]]]
                \o << [arg |-> FALSE, text |-> cmdName] >>
    /\ callCount' = callCount + 1
    /\ UNCHANGED <<wire, arrived, clientPc, callLine, ownFrame, outcome>>
    /\ ClientFrame

\* Client.ResetFilters
ResetFilters == SendCommand(VResetFilters, << >>)

\* Client.SetFilterName
SetFilterName(query) ==
    IF query = << >> THEN ResetFilters
    ELSE SendCommand(VFilterNameAlias, << query >>)

\* List, Run and RunInTerminal up to their readResponse: c.mu.Lock() and
\* the Fprintf of the lines
Call(method, texts) ==
    /\ CanCall(Len(texts))
    /\ sentLines' = sentLines \o texts
    /\ given' = given
                \o [i \in 1..Len(texts) |-> [arg |-> FALSE, text |-> texts[i]]]
    /\ callLine' = Len(sentLines')
    /\ clientPc' = method
    /\ ownFrame' = NoResp
    /\ callCount' = callCount + 1
    /\ UNCHANGED <<wire, arrived, outcome>>
    /\ ClientFrame

\* Client.List: "list\n"
ClientList == Call("List", << VList >>)

\* Client.Run: "%d\nrun\n"
ClientRun(id) == Call("Run", << Itoa(id), VRun >>)

\* Client.RunInTerminal: "\"opt: terminal\n%d\nrun\n"
RunInTerminal(id) ==
    Call("RunInTerminal", << <<"\"","o","p","t",":"," ","t","e","r","m","i","n","a","l">>, Itoa(id), VRun >>)

\* number of the line whose frame the server wrote last
FrameLine == IF lastCmd.line > errLine THEN lastCmd.line ELSE errLine

\* the frame written last is in the client's socket (a write on a unix
\* socket puts the bytes in the peer's receive queue)
Deliver ==
    /\ arrived < FrameLine
    /\ lastResp.conn = ClientConn
    /\ wire' = wire \o FrameBytes(lastResp)
    /\ arrived' = FrameLine
    /\ ownFrame' = IF FrameLine = callLine THEN lastResp ELSE ownFrame
    /\ UNCHANGED <<sentLines, given, clientPc, callLine, outcome, callCount>>
    /\ ClientFrame

\* the handler of the client's connection reads the next line the client
\* wrote
CanServe ==
    /\ ProcessAlive
    /\ arrived = FrameLine
    /\ lineCount < Len(sentLines)
NextLine == sentLines[lineCount + 1]
ServePush == CanServe /\ PushLine(ClientConn, NextLine)
ServeCommand == CanServe /\ ExecuteCommand(ClientConn, NextLine)

\* the client's reads return io.EOF after the bytes in its socket: the
\* daemon's process has ended or the handler has closed the connection
AtEOF ==
    /\ ~ProcessAlive \/ connState[ClientConn] = "closed"
    /\ arrived = FrameLine

\* readResponse returns, and List, Run or RunInTerminal with it; bytes its
\* bufio.Reader has taken from the socket and not consumed go with it
ReadResponseReturns ==
    /\ clientPc # "idle"
    /\ LET r == ReadResponse(wire, AtEOF)
       IN /\ r.state # "blocked"
          /\ outcome' = CallResult(clientPc, r)
          /\ \E k \in 0..Len(r.rest) :
                wire' = SubSeq(r.rest, k + 1, Len(r.rest))
    /\ clientPc' = "idle"
    /\ UNCHANGED <<sentLines, given, arrived, callLine, ownFrame, callCount>>
    /\ ClientFrame

\* a serving daemon whose index holds Fox (1) and Top (2), and a Client that
\* NewClient has returned, its header read by the handler
InitClientSession ==
    /\ Serving(<<FoxDesktop, TopDesktop>>, << >>)
    /\ InitConn("open")

\* the commands a program sends with SendCommand
SentCommands ==
    {<<VFilterName, << <<"f","o">> >> >>, <<VFilterCat, << <<"N","e","t","w","o","r","k">> >> >>,
     <<VFilterPath, << <<"f","o","x">> >> >>, <<VLang, << >> >>}

\* a program calling the methods of its Client one after the other, the
\* handler of its connection, and the daemon's shutdown
NextClient ==
    \/ \E sc \in SentCommands : SendCommand(sc[1], sc[2])
    \/ \E q \in {<< >>, <<"f","o">>} : SetFilterName(q)
    \/ ClientList
    \/ \E id \in {1, 9} : ClientRun(id)
    \/ \E id \in {1, 9} : RunInTerminal(id)
    \/ Deliver
    \/ ServePush
    \/ ServeCommand
    \/ ReadResponseReturns
    \/ MainCancel
    \/ ShutdownStep

\* the handler, the socket, the reader and main take their steps; nothing
\* obliges the program to call a method or a signal to arrive
SpecClient ==
    /\ InitClientSession
    /\ [][NextClient]_vars
    /\ WF_vars(Deliver)
    /\ WF_vars(ServePush)
    /\ WF_vars(ServeCommand)
    /\ WF_vars(ReadResponseReturns)
    /\ WF_vars(ShutdownStep)

\* the arguments a program gives SendCommand: words, verb words, operator
\* words, numbers with and without sign, a number beyond int64, and texts
\* with white space, a quote or a number sign at their ends
FormatArgs ==
    {<<"f","o">>, <<"l","i","s","t">>, <<"r","u","n">>, <<"t">>, <<"f">>, <<"o","r">>, <<"n","o","t">>, <<"4","2">>,
     <<"-","7">>, <<"+","5">>, <<"0","0","7">>, <<"9","2","2","3","3","7","2","0","3","6","8","5","4","7","7","5","8","0","8">>, <<"a"," ","b">>, <<"#","c">>,
     << >>, <<" ","f","o">>, <<"f","o"," ">>, <<" ","4","2">>, <<"t", "\r">>, <<"\"","f","o">>, <<"\"">>, <<"x","\"">>}

\* the handler executes the lang command the client wrote
ServeLang == CanServe /\ LangLine(ClientConn, NextLine)

\* a program that sends lang commands with one argument each, and the
\* handler of its connection
NextFormat ==
    \/ \E a \in FormatArgs : SendCommand(VLang, << a >>)
    \/ Deliver
    \/ ServePush
    \/ ServeLang

SpecFormat == InitClientSession /\ [][NextFormat]_vars

\* ============================================================ properties
\* the rows a list command returns in the current state
ListRows == {Row(e) : e \in FilterEntries(GetAll(indexes[idxIndex]))}

\* the entries of the index
AllEntries == GetAll(indexes[idxIndex])

\* the verbs that change session state
SessionVerbs == {"+filter-name", "+filter-cat", "+filter-path", "0filters",
                 "lang"}

\* C1: session state is private to a connection: a +filter-name, +filter-cat,
\* +filter-path, 0filters or lang command processed on a connection A never
\* changes the rows (ids and display names) that a list on another
\* connection B returns.
C1_SessionPrivate ==
    [][\A b \in Conns :
          (last'.conn # b /\ last'.verb \in SessionVerbs)
              => ListRows' = ListRows]_vars

\* C2: a list command that runs while a re-index is in flight observes
\* exactly the entry set of the index as it was before the re-index began or
\* exactly the entry set of the completed new index.  Stated once the run
\* that was in flight has completed, so that both sets are known.
C2_ListSeesSnapshot ==
    \A c \in Conns :
        (last.verb = "list" /\ c \in listInflight
           /\ pc[c] \in {"finish", "count", "returned"})
            => listed \in {preSnap[c], postSnap[c]}

\* C3: a Reindex call that cancelled a run in flight and waits for its
\* goroutines is never stuck: while a caller is inside the cancel-and-wait
\* of runIndexing, some goroutine or caller can still take a step.
C3_CancelWaitProgresses ==
    (\E c \in Conns : pc[c] = "wait65") => ENABLED Next

\* a goroutine of run r is running
RunActive(r) ==
    scan[r].exec = "on" \/ scan[r].desk = "on" \/ scan[r].cons = "on"

\* C4: at most one indexing run is active at any time: no two runs have
\* scanner or consumer goroutines running at once.
C4_OneActiveRun ==
    \A r1, r2 \in Callers : (RunActive(r1) /\ RunActive(r2)) => r1 = r2

\* C5: within one process lifetime no ID value is assigned to two different
\* entries, over all the Index objects the indexing runs have filled.
C5_IdNeverReused ==
    \A o1, o2 \in Objs :
        \A id \in (DOMAIN indexes[o1].entries) \cap (DOMAIN indexes[o2].entries) :
            indexes[o1].entries[id] = indexes[o2].entries[id]

\* the adders whose Add has returned
Returned == {a \in Adders : addPc[a] = "returned"}

\* C6: concurrent Add calls on one Index return pairwise distinct IDs, the
\* first ID assigned is 1 (the IDs returned are the first ones from 1 up),
\* and an Add that begins after another Add has returned receives an ID
\* strictly larger than every ID returned before it began.
C6_AddDistinctIncreasing ==
    /\ \A a, b \in Returned : addRet[a] = addRet[b] => a = b
    /\ Returned # {} => \E a \in Returned : addRet[a] = 1
    /\ \A a \in Returned : addRet[a] \in 1..Cardinality(Returned)
    /\ \A a \in Returned : addRet[a] > addFloor[a]

\* two Adds returned, the second of which began after the first returned
C6_Witness ==
    \E a, b \in Returned : addFloor[b] = addRet[a] /\ addRet[b] = 2

\* C7: for every row of a list response, Get(id) on the index, issued after
\* the response, returns the entry that produced the row.
C7_ListedThenGet ==
    (last.verb = "list" /\ idxMu = NoCaller)
        => \A e \in listed :
              IndexGet(indexes[idxIndex], e.ID) = [ok |-> TRUE, entry |-> e]

\* the rows of the frame most recently written
FrameRows == {lastResp.body[i] : i \in 1..Len(lastResp.body)}

\* some FilterExpr of the list matches, by the dimension's matcher
AnyExprMatches(filters, Matches(_, _), e) ==
    \E i \in 1..Len(filters) : Matches(e, filters[i])

\* the entries the three dimensions select together: each non-empty
\* dimension has an expression that matches
Selected ==
    {e \in AllEntries :
        /\ nameFilters # << >> => AnyExprMatches(nameFilters, MatchesNameFilter, e)
        /\ catFilters # << >> => AnyExprMatches(catFilters, MatchesCatFilter, e)
        /\ pathFilters # << >> => AnyExprMatches(pathFilters, MatchesPathFilter, e)}

NameHas(e, v) ==
    \/ Contains(ToLower(e.Name), ToLower(v))
    \/ \E k \in DOMAIN e.Names : Contains(ToLower(e.Names[k]), ToLower(v))

\* the matching the operator given to +filter-name asks for
NameAsked(e, values, op) ==
    IF op = "or" THEN \E i \in 1..Len(values) : NameHas(e, values[i])
    ELSE IF op = "and" THEN \A i \in 1..Len(values) : NameHas(e, values[i])
    ELSE \A i \in 1..Len(values) : ~NameHas(e, values[i])

\* C9: a name FilterExpr created by +filter-name with operator or (also the
\* default), and, or not matches an entry iff, respectively, at least one,
\* every, or none of its values is a case-insensitive substring of the
\* entry's name or of one of its localized names.  Stated on a list under
\* that expression alone.
C9_NameOperator ==
    (/\ last.verb = "list"
     /\ Len(nameFilters) = 1 /\ catFilters = << >> /\ pathFilters = << >>
     /\ reqOp.name \in {"or", "and", "not"})
        => listed = {e \in AllEntries :
                        NameAsked(e, nameFilters[1].Values, reqOp.name)}

\* a value equals, case-insensitively, some category of the entry
HasCategory(e, v) ==
    \E c \in 1..Len(e.Categories) : EqualFold(e.Categories[c], v)

\* C10: a category FilterExpr created by +filter-cat with operator and (also
\* the default) matches an entry iff every one of its values equals,
\* case-insensitively, some category of the entry.  Stated on a list under
\* that expression alone.
C10_CategoryAnd ==
    (/\ last.verb = "list"
     /\ Len(catFilters) = 1 /\ nameFilters = << >> /\ pathFilters = << >>
     /\ reqOp.cat = "and")
        => listed = {e \in AllEntries :
                        \A i \in 1..Len(catFilters[1].Values) :
                            HasCategory(e, catFilters[1].Values[i])}


\* the value of an attribute of a frame, or << >> if the frame has no such
\* attribute
AttrOf(frame, key) ==
    IF \E i \in 1..Len(frame.attrs) : frame.attrs[i][1] = key
    THEN frame.attrs[CHOOSE i \in 1..Len(frame.attrs) :
                         frame.attrs[i][1] = key][2]
    ELSE << >>

\* the same of the frame most recently written
Attr(key) == AttrOf(lastResp, key)

\* C11: with an index holding Firefox (1), Firefox (Wayland) (2) and Gimp
\* (3), a list under the single name filter "fi fox" is answered with
\* list-len 2 and exactly the rows of the entries 1 and 2.
C11_FiFoxFindsFirefox ==
    (/\ last.verb = "list"
     /\ nameFilters = << [Values |-> << <<"f","i"," ","f","o","x">> >>,
                          Op |-> "or"] >>
     /\ catFilters = << >> /\ pathFilters = << >>)
        => /\ Attr("list-len") = Itoa(2)
           /\ FrameRows = {[id |-> 1, name |-> FirefoxDesktop.Name],
                           [id |-> 2, name |-> WaylandDesktop.Name]}

\* the String arguments of a command, in order
StringArgs(args) ==
    LET strs == SelectSeq(args, LAMBDA a : a.Type = TypeString)
    IN [i \in 1..Len(strs) |-> strs[i].Str]

\* a filter list after a command with the String arguments strs: one
\* FilterExpr more, holding strs, or the same list if strs is empty
AppendsOne(old, new, strs) ==
    IF strs # << >>
    THEN /\ Len(new) = Len(old) + 1
         /\ SubSeq(new, 1, Len(old)) = old
         /\ new[Len(new)].Values = strs
    ELSE new = old

\* the step executes a command that ParseCommand returned
CommandStep == lastCmd' # lastCmd

\* C12: each of +filter-name, +filter-cat and +filter-path appends exactly
\* one FilterExpr, holding the command's String arguments in order, to the
\* filter list of its own dimension if the command has a String argument and
\* nothing if it has none; the lists of the other two dimensions and the
\* language are left unchanged.
C12_FilterAppendsOne ==
    [][CommandStep =>
        LET strs == StringArgs(lastCmd'.Args)
        IN /\ lastCmd'.Name = VFilterName =>
                /\ AppendsOne(nameFilters, nameFilters', strs)
                /\ UNCHANGED <<catFilters, pathFilters, lang>>
           /\ lastCmd'.Name = VFilterCat =>
                /\ AppendsOne(catFilters, catFilters', strs)
                /\ UNCHANGED <<nameFilters, pathFilters, lang>>
           /\ lastCmd'.Name = VFilterPath =>
                /\ AppendsOne(pathFilters, pathFilters', strs)
                /\ UNCHANGED <<nameFilters, catFilters, lang>>]_vars

\* a +filter-name command with a String argument has appended its expression
\* while another dimension holds one
C12_Witness ==
    /\ lastCmd.Name = VFilterName
    /\ StringArgs(lastCmd.Args) # << >>
    /\ last.verb = "+filter-name"
    /\ Len(nameFilters) = 1 /\ nameFilters[1].Values = StringArgs(lastCmd.Args)
    /\ Len(catFilters) + Len(pathFilters) = 1

\* C13: after any earlier commands, a list that follows a 0filters of the
\* same connection (no filter command of that connection in between) is
\* answered with list-len and a number of body rows both equal to Count() of
\* the index, the index not being modified in between.
C13_ResetThenListAll ==
    (last.verb = "list" /\ clean[last.conn])
        => /\ Attr("list-len") = Itoa(Count(indexes[idxIndex]))
           /\ Len(lastResp.body) = Count(indexes[idxIndex])

\* the step reads a line of a connection
LineStep == lineCount' = lineCount + 1

\* the step reads a line that ParseCommand fails on
ErrorLineStep == LineStep /\ ~CommandStep /\ pushed' = << >>

\* the step reads a value line, an empty line or a comment
ValueLineStep == LineStep /\ pushed' # << >>

\* the frame is written on connection c and names the command it answers
\* (a list frame is known by its list-len attribute)
Answers(frame, c, name) ==
    /\ frame.conn = c
    /\ frame.header = "TXT01"
    /\ \/ AttrOf(frame, "cmd") = name
       \/ AttrOf(frame, "error-cmd") = name
       \/ name = VList /\ AttrOf(frame, "list-len") # << >>

\* C14: a connection's commands are processed in arrival order, one frame
\* each: the step that reads a verb line, or a line that fails to parse,
\* writes the frame that answers it before any further line is read, and
\* reading any other line writes nothing; so the k-th frame answers the
\* k-th command.
C14_OneFramePerCommand ==
    [][/\ CommandStep =>
            Answers(lastResp', lastCmd'.conn, lastCmd'.Name)
       /\ ErrorLineStep =>
            /\ Answers(lastResp', last'.conn, <<"p","a","r","s","e","r">>)
            /\ AttrOf(lastResp', "error") =
                  <<"p","a","r","s","e"," ","e","r","r","o","r">>
       /\ ValueLineStep => UNCHANGED lastResp]_vars

\* the third line of a connection is a list command, answered after the
\* +filter-name command of the first two lines was
C14_Witness ==
    /\ lastCmd.line = 3
    /\ lastCmd.Name = VList
    /\ nameFilters # << >>
    /\ Answers(lastResp, lastCmd.conn, VList)

\* the step answers the line it reads with an error frame
ErrorFrameStep == LineStep /\ errLine' = lineCount'

\* C15: a command that fails with an argument-type mismatch, a missing
\* argument or an unknown entry ID, and any line that fails to parse, is
\* answered with an error frame and leaves the connection open; on an open
\* connection the next well-formed command (here 0filters and list) is
\* always read and executed, and by C14 answered.
C15_ErrorKeepsOpen ==
    /\ [][ErrorFrameStep =>
            /\ AttrOf(lastResp', "error-cmd") # << >>
            /\ AttrOf(lastResp', "error") # << >>
            /\ UNCHANGED connState
            /\ connState'[lastResp'.conn] = "open"]_vars
    /\ [](\A c \in Conns :
            (connState[c] = "open" /\ lineCount < MaxLines)
                => /\ ENABLED ExecuteCommand(c, VResetFilters)
                   /\ ENABLED ExecuteCommand(c, VList))

\* a command answered with a success frame after an earlier line of the
\* connection was answered with an error frame
C15_Witness ==
    /\ errLine > 0
    /\ lastCmd.line > errLine
    /\ Attr("status") = Itoa(0)
    /\ Answers(lastResp, lastCmd.conn, lastCmd.Name)

\* verbs parseCommand knows and executeCommand has no case for
UnhandledVerbs == {VFilterNameAlias, VSaveConf, VListNext, VReindex}

C17_OnlyTXT01Accepted ==
    \A c \in Conns :
        (connState[c] # "new" /\ hdr[c] # TXT01)
            => /\ connState[c] = "closed"
               /\ lastCmd.conn # c
               /\ lastResp.conn = c =>
                     Attr("error") = <<"i","n","v","a","l","i","d"," ",
                                       "h","e","a","d","e","r">>

\* the value a line pushes according to the request grammar: a String of
\* the rest of the line after ", the literal t or f, the operator or, and
\* or not, or a signed integer
Denoted(line) ==
    IF HasPrefix(line, <<"\"">>)
    THEN [kind |-> "String", str |-> Tail(line), int |-> 0]
    ELSE IF line \in {<<"t">>, <<"f">>}
    THEN [kind |-> "Bool", str |-> line, int |-> 0]
    ELSE IF line \in {<<"o","r">>, <<"a","n","d">>, <<"n","o","t">>}
    THEN [kind |-> "Op", str |-> line, int |-> 0]
    ELSE [kind |-> "Int", str |-> << >>, int |-> ParseInt(line).val]

\* the line is a value line of the request grammar
IsValueLine(line) ==
    \/ HasPrefix(line, <<"\"">>)
    \/ line \in {<<"t">>, <<"f">>, <<"o","r">>, <<"a","n","d">>, <<"n","o","t">>}
    \/ ParseInt(line).ok

\* what a Value of a Command tells its handler
Told(v) ==
    IF v.Type = TypeString THEN [kind |-> "String", str |-> v.Str, int |-> 0]
    ELSE IF v.Type = TypeInt THEN [kind |-> "Int", str |-> << >>, int |-> v.Int]
    ELSE IF v.Str # << >> THEN [kind |-> "Op", str |-> v.Str, int |-> 0]
    ELSE [kind |-> "Bool", str |-> IF v.Bool THEN <<"t">> ELSE <<"f">>,
          int |-> 0]

\* the values that the value lines among ls denote, in order
DenotedBy(ls) ==
    LET vs == SelectSeq(ls, IsValueLine)
    IN [i \in 1..Len(vs) |-> Denoted(vs[i])]

\* the lines without the white space at their ends
Trimmed(ls) == [i \in 1..Len(ls) |-> TrimSpace(ls[i])]

\* C18 as stated: for every sequence of value lines followed by a known verb
\* line, ParseCommand returns a Command whose name is the verb and whose
\* args are exactly the pushed values, in push order, with their types and
\* contents preserved; comment and empty lines in between change nothing.
C18_ArgsArePushedValues ==
    [][CommandStep =>
        /\ lastCmd'.Name \in KnownCommands
        /\ [i \in 1..Len(lastCmd'.Args) |-> Told(lastCmd'.Args[i])]
              = DenotedBy(pushed)]_vars

\* C18, amended: the args are the values denoted by the lines without the
\* white space at their ends: types and order are preserved, or, and and
\* not stay distinguishable from each other and from t and f, comment and
\* empty lines change nothing, and a String keeps its content except for
\* white space at the end of its line.
C18_ArgsAreTrimmedValues ==
    [][CommandStep =>
        /\ lastCmd'.Name \in KnownCommands
        /\ [i \in 1..Len(lastCmd'.Args) |-> Told(lastCmd'.Args[i])]
              = DenotedBy(Trimmed(pushed))]_vars

\* the fourth line of a connection returns a Command whose args are a String
\* and an operator
C18_Witness ==
    /\ lastCmd.Name = VList
    /\ lastCmd.line = 4
    /\ Len(lastCmd.Args) = 2
    /\ lastCmd.Args[1].Type = TypeString
    /\ Told(lastCmd.Args[2]).kind = "Op"

\* the lines among ls that reach parseValue
Tokens(ls) == SelectSeq(ls, Token)

\* C19: the argument stack never leaks across commands: the args of every
\* Command that ParseCommand returns are the values of the lines read after
\* the previous verb line or the previous parse error of the connection,
\* one arg per such line and no other.
C19_StackNeverLeaks ==
    [][CommandStep =>
        /\ Len(lastCmd'.Args) = Len(Tokens(pushed))
        /\ \A i \in 1..Len(lastCmd'.Args) :
              lastCmd'.Args[i] = ParseValue(TrimSpace(Tokens(pushed)[i])).v]_vars

\* a run command whose only arg is the value pushed after the +filter-name
\* command of the first two lines
C19_Witness ==
    /\ lastCmd.line = 4
    /\ lastCmd.Name = VRun
    /\ Len(lastCmd.Args) = 1 /\ lastCmd.Args[1].Type = TypeInt
    /\ nameFilters # << >>

\* the frame has an attribute with this key
HasAttr(frame, key) ==
    \E i \in 1..Len(frame.attrs) : frame.attrs[i][1] = key

\* an error frame: error-cmd, error and desc attributes, no body
IsErrorFrame(frame) ==
    /\ HasAttr(frame, "error-cmd") /\ HasAttr(frame, "error")
    /\ HasAttr(frame, "desc")
    /\ frame.body = << >>

\* a frame with 'cmd: <verb>' and 'status: 0'
IsStatusFrame(frame, verb) ==
    /\ AttrOf(frame, "cmd") = verb
    /\ AttrOf(frame, "status") = Itoa(0)
    /\ ~HasAttr(frame, "error")

\* the command the step executes fails: a run that starts no child process,
\* a lang without a String first argument, a verb without a handler
Fails ==
    \/ lastCmd'.Name = VRun /\ spawnCount' = spawnCount
    \/ /\ lastCmd'.Name = VLang
       /\ lastCmd'.Args = << >> \/ lastCmd'.Args[1].Type # TypeString
    \/ lastCmd'.Name \in UnhandledVerbs

C21_BodyFramed ==
    (last.verb = "list" /\ lastResp.body # << >>) =>
        ResponseLines(lastResp) =
            AttrLines(lastResp) \o << << >>, <<"b","o","d","y",":">> >>
            \o RowLines(lastResp) \o << << >> >>

\* the step executes a run command whose first argument is an Int
RunIntStep ==
    /\ CommandStep
    /\ lastCmd'.Name = VRun
    /\ Len(lastCmd'.Args) > 0
    /\ lastCmd'.Args[1].Type = TypeInt

\* no child process is started by the step
NoSpawn == spawnCount' = spawnCount /\ lastSpawn' = lastSpawn

\* C22: a run command whose Int argument is not the ID of any entry of the
\* current index is answered with an error frame 'error-cmd: run',
\* 'error: index not found' with an empty body, and starts no child process.
C22_RunUnknownId ==
    [][(RunIntStep /\ lastCmd'.Args[1].Int \notin DOMAIN indexes[idxIndex].entries)
        => /\ lastResp'.conn = lastCmd'.conn
           /\ IsErrorFrame(lastResp')
           /\ AttrOf(lastResp', "error-cmd") = VRun
           /\ AttrOf(lastResp', "error") = <<"i","n","d","e","x"," ","n","o","t"," ","f","o","u","n","d">>
           /\ NoSpawn]_vars

\* after an application has been started, "9", run was answered with index
\* not found, and the one child process is still the only one
C22_Witness ==
    /\ lastCmd.Name = VRun
    /\ lastCmd.line = 4
    /\ Len(lastCmd.Args) = 1 /\ lastCmd.Args[1].Int = 9
    /\ Attr("error") = <<"i","n","d","e","x"," ","n","o","t"," ","f","o","u","n","d">>
    /\ spawnCount = 1

\* C23: a run command on an existing entry whose exec string is empty or
\* only whitespace is answered with the error kind 'invalid exec' and starts
\* no child process, whether the entry's terminal flag is false or true.
C23_EmptyExecInvalid ==
    [][(/\ RunIntStep
        /\ IndexGet(indexes[idxIndex], lastCmd'.Args[1].Int).ok
        /\ Fields(IndexGet(indexes[idxIndex], lastCmd'.Args[1].Int).entry.Exec)
              = << >>)
        => /\ IsErrorFrame(lastResp')
           /\ AttrOf(lastResp', "error-cmd") = VRun
           /\ AttrOf(lastResp', "error") = <<"i","n","v","a","l","i","d"," ","e","x","e","c">>
           /\ NoSpawn]_vars

\* the Exec value of the .desktop file at path
ExecValue(path) ==
    desktopFiles[CHOOSE i \in 1..Len(desktopFiles) :
                     desktopFiles[i].Path = path].Exec

\* C26: every desktop-sourced entry of the index has an exec string from
\* which all field codes (% followed by a letter) have been removed and in
\* which %% has become a single %; so no argument of a child process that
\* run starts for such an entry holds a field code.
C26_ExecFieldCodesStripped ==
    /\ \A e \in AllEntries :
          e.IsDesktop => e.Exec = RemoveFieldCodes(ExecValue(e.Path))
    /\ \A i \in 1..Len(lastSpawn) :
          RemoveFieldCodes(lastSpawn[i]) = lastSpawn[i]

\* the name of an entry under the language l: the localized name stored
\* under exactly l if the entry has one, the default name otherwise
NameUnder(e, l) == IF l \in DOMAIN e.Names THEN e.Names[l] ELSE e.Name

\* C24: after a lang command with a String argument L, every later list on
\* the same connection shows each entry under L (its name stored under
\* exactly L, or its default name); before any lang command the language is
\* 'en'; a lang command without a String first argument leaves the language
\* unchanged.
C24_ListInAskedLanguage ==
    last.verb = "list" =>
        {lastResp.body[i] : i \in 1..Len(lastResp.body)} =
            {[id |-> e.ID, name |-> NameUnder(e, asked[last.conn])] : e \in listed}

\* the paths of the .desktop files that have NoDisplay=true
HiddenPaths ==
    {desktopFiles[i].Path :
        i \in {j \in 1..Len(desktopFiles) : desktopFiles[j].NoDisplay}}

DefaultListLimit == 128

\* the step executes a list-next command whose first argument is an Int
ListNextStep ==
    /\ CommandStep
    /\ lastCmd'.Name = VListNext
    /\ Len(lastCmd'.Args) > 0
    /\ lastCmd'.Args[1].Type = TypeInt

\* offset and limit of the list-next command of the step
NextOffset == lastCmd'.Args[1].Int
NextLimit ==
    IF Len(lastCmd'.Args) > 1 /\ lastCmd'.Args[2].Type = TypeInt
    THEN lastCmd'.Args[2].Int
    ELSE DefaultListLimit

\* C27: a list-next command with an Int offset greater than or equal to the
\* number of entries matching the current filters is answered with a success
\* frame that has an empty body and no list-next attribute; with an offset
\* below that number and more results remaining beyond the page, the frame
\* carries 'list-next: <next_offset> <limit>'.
C27_ListNextPages ==
    [][ListNextStep =>
        LET n == Cardinality(FilterEntries(AllEntries))
        IN /\ ~HasAttr(lastResp', "error")
           /\ NextOffset >= n =>
                 /\ lastResp'.body = << >>
                 /\ ~HasAttr(lastResp', "list-next")
           /\ (NextOffset >= 0 /\ NextOffset + NextLimit < n) =>
                 AttrOf(lastResp', "list-next") =
                     Itoa(NextOffset + NextLimit) \o <<" ">> \o Itoa(NextLimit)]_vars

\* the step executes a reindex command
ReindexStep == CommandStep /\ lastCmd'.Name = VReindex

\* C28: a reindex command whose arguments are all Strings (or which has
\* none) triggers a re-index and is answered with 'cmd: reindex',
\* 'status: 0' and 'indexed: <count>', the number of entries of the index
\* when the re-index finished; a reindex command with a non-String argument
\* is answered with an error frame 'error-cmd: reindex' of kind 'invalid
\* argument' and performs no re-index.
C28_ReindexAnswers ==
    [][ReindexStep =>
        IF \A i \in 1..Len(lastCmd'.Args) : lastCmd'.Args[i].Type = TypeString
        THEN /\ reindexCalls' = reindexCalls + 1
             /\ IsStatusFrame(lastResp', VReindex)
             /\ AttrOf(lastResp', "indexed") = Itoa(Count(indexes'[idxIndex']))
        ELSE /\ reindexCalls' = reindexCalls
             /\ indexes' = indexes /\ idxIndex' = idxIndex
             /\ IsErrorFrame(lastResp')
             /\ AttrOf(lastResp', "error-cmd") = VReindex
             /\ AttrOf(lastResp', "error") = <<"i","n","v","a","l","i","d"," ","a","r","g","u","m","e","n","t">>]_vars

\* the step executes a filter-name command
AliasStep == CommandStep /\ lastCmd'.Name = VFilterNameAlias

\* C29: the verb filter-name is an alias of +filter-name: for every argument
\* list a filter-name command changes the name filters as +filter-name with
\* the same arguments does (so that a later list is filtered by it) and is
\* answered as +filter-name is, with a frame of status 0.
C29_FilterNameAlias ==
    [][AliasStep =>
        /\ nameFilters' =
              Appended(nameFilters,
                       BuildExpr([Values |-> << >>, Op |-> "or"], lastCmd'.Args))
        /\ catFilters' = catFilters /\ pathFilters' = pathFilters
        /\ AttrOf(lastResp', "cmd") \in {VFilterName, VFilterNameAlias}
        /\ AttrOf(lastResp', "status") = Itoa(0)
        /\ ~HasAttr(lastResp', "error")]_vars

\* C30: when reading from a connection fails with an I/O error other than
\* end of stream, the handler of that connection eventually stops reading,
\* closes the connection and exits (it does not keep retrying the read or
\* writing error frames), and no other connection is affected.
C30_ReadErrorCloses ==
    /\ \A c \in Conns : readErr[c] ~> (connState[c] = "closed")
    /\ [][\A c \in Conns :
             (ReadFails(c) \/ AnswerReadError(c)) =>
                 \A d \in Conns \ {c} :
                     connState'[d] = connState[d] /\ stack'[d] = stack[d]]_vars

\* a goroutine of an indexing run is still running
IndexingActive == \E r \in Callers : RunActive(r)

\* the shutdown is complete: Server.Start and Indexer.Stop have returned, no
\* scanner or merger goroutine runs, and every handler has returned, which
\* closes its connection
ShutdownComplete ==
    /\ acceptPc = "returned"
    /\ mainPc \in {"idxStopped", "srvStopped", "exited"}
    /\ ~IndexingActive
    /\ \A c \in Conns : connState[c] \in {"none", "closed"}

\* C31: after a shutdown signal (root context cancelled, then Indexer.Stop
\* and Server.Stop, as main does), eventually and in every interleaving the
\* accept loop returns, Indexer.Stop returns with all scanner and merger
\* goroutines finished, and every in-flight connection handler finishes its
\* current command and closes its connection.
C31_ShutdownCompletes == rootDone ~> ShutdownComplete

\* the count a GetFrequencies call made now reports for one path
FrequencyOf(p) == Frequencies(<<p>>)[p]

\* C32: for any sequence of successful Increment calls on a RunIndex,
\* GetFrequencies(paths) returns a map whose keys are exactly the requested
\* paths and whose value for each path p is the number of Increment(p) calls
\* made so far (0 for a path never incremented); Increment(p) changes the
\* count of p by exactly 1 and leaves the count of every other path
\* unchanged.
C32_FrequenciesCountIncrements ==
    /\ [](\A q \in FreqArgs :
             /\ DOMAIN Frequencies(q) = Range(q)
             /\ \A p \in Range(q) : Frequencies(q)[p] = incCalls[p])
    /\ [][/\ DOMAIN freqs' = Range(freqArg')
          /\ freqs' # freqs => \A p \in Range(freqArg') : freqs'[p] = incCalls[p]
          /\ \A p \in RunPaths :
                incCalls'[p] # incCalls[p] =>
                    /\ FrequencyOf(p)' = FrequencyOf(p) + 1
                    /\ \A r \in RunPaths \ {p} :
                          FrequencyOf(r)' = FrequencyOf(r)]_vars

\* GetFrequencies has returned the count of /a after the Increment that
\* carried into its second byte, and 0 for a path never incremented that was
\* asked for twice
C32_Witness ==
    /\ freqArg = << <<"/","c">>, <<"/","a">>, <<"/","c">> >>
    /\ freqs[<<"/","a">>] = OldRuns + 1
    /\ freqs[<<"/","c">>] = 0
    /\ bucket[<<"/","a">>] = <<0, 0, 0, 0, 0, 0, 1, 0>>
    /\ incCalls[<<"/","b">>] = 1

\* the Add calls that have stored their entry
Stored == {a \in Adders : addPc[a] \in {"stored", "returned"}}

\* C33: in every reachable state of an Index, each live ID appears exactly
\* once as a key (every Add that has stored its entry holds a key of its own:
\* none has replaced another's), the entry stored under key k has ID k,
\* nextID is strictly greater than every live ID, and Count() equals the
\* number of entries GetAll() returns.
C33_IndexInvariants ==
    \A o \in Objs :
        LET ix == indexes[o]
        IN /\ \A k \in DOMAIN ix.entries : ix.entries[k].ID = k
           /\ \A k \in DOMAIN ix.entries : ix.nextID > k
           /\ Count(ix) = Cardinality(GetAll(ix))
           /\ o = 0 =>
                 /\ Count(ix) = Cardinality(Stored)
                 /\ \A a \in Stored : ix.entries[addID[a]].Name = AdderEntry(a).Name

\* two Add calls have stored their entries and a third has taken its ID and
\* incremented nextID without having stored yet
C33_Witness ==
    /\ Count(indexes[0]) = 2
    /\ \E a \in Adders : addPc[a] = "incremented" /\ addID[a] = 3

\* the candidates the scanners of run c emit that are to be indexed
Expected(c) == ExecEntries(runPaths[c]) \o DeskEntries(desktopFiles)

\* the keys under which an Index holds a candidate
Inserted(ix, e) ==
    {k \in DOMAIN ix.entries : [ix.entries[k] EXCEPT !.ID = 0] = e}

\* C34: when Reindex(ctx, paths) returns without error and was not cancelled
\* or superseded, every candidate emitted by the executable scanner and
\* every displayable candidate emitted by the desktop scanner has been
\* inserted into the index exactly once (none lost, whatever the order in
\* which the two channels deliver and close), and the returned count equals
\* Index.Count(); with nil or empty paths the configured default paths are
\* scanned and the call still succeeds.
C34_ReindexInsertsAll ==
    \A c \in Conns :
        pc[c] = "returned" =>
            LET ix == indexes[ObjOf(c)]
            IN /\ runPaths[c] \in {cfgPath, AltPath}
               /\ \A i \in 1..Len(Expected(c)) :
                     Cardinality(Inserted(ix, Expected(c)[i])) = 1
               /\ Count(ix) = Len(Expected(c))
               /\ reindexRet[c] = Count(ix)

\* a Reindex call without paths has returned 3: the two executables of the
\* configured path and the displayed .desktop file, the latter inserted
\* first
C34_Witness ==
    \E c \in Conns :
        /\ pc[c] = "returned"
        /\ runPaths[c] = cfgPath
        /\ reindexRet[c] = 3
        /\ indexes[idxIndex].entries[1].IsDesktop
        /\ ~indexes[idxIndex].entries[3].IsDesktop

\* every call has been made and no goroutine of an indexing run is running
\* any more
IndexingOver ==
    /\ ~panicked
    /\ \A c \in Callers : pc[c] \notin {"idle"}
    /\ \A r \in Callers : ~RunActive(r)

\* the run that installed the current index
LastRun == idxIndex - 1

\* C35: for any interleaving of three or more overlapping Reindex calls,
\* once all indexing goroutines have finished the current index contains only
\* entries produced by the last run, and each candidate of that run at most
\* once: no entry added by a superseded or concurrent older run ever appears
\* in the index installed by a newer run.
C35_OnlyLastRunEntries ==
    IndexingOver =>
        LET ix == indexes[idxIndex]
        IN \A k \in DOMAIN ix.entries :
              LET e == [ix.entries[k] EXCEPT !.ID = 0]
              IN /\ \E i \in 1..Len(Expected(LastRun)) : Expected(LastRun)[i] = e
                 /\ Cardinality(Inserted(ix, e)) = 1

\* a List or Run call has returned what readResponse parsed, and the server
\* had answered its command
CallAnswered ==
    /\ clientPc = "idle"
    /\ outcome.call \in {"List", "Run"}
    /\ outcome.err # <<"f","a","i","l","e","d"," ","t","o"," ","r","e","a","d"," ","r","e","s","p","o","n","s","e">>
    /\ ownFrame # NoResp

\* C36: Client.List and Client.Run return the answer to the command they have
\* just sent, also after calls whose response frames were never read: the
\* call returns a server error exactly if the frame the server wrote for its
\* own command is an error frame.  (The rows of a list frame are left out:
\* readResponse recognises none, as the frame has no body: line, C21.)
C36_OwnResponse ==
    CallAnswered => ((outcome.err # << >>) <=> IsErrorFrame(ownFrame))

\* the frame that answers the command of the call in progress is written
\* and in the client's socket
FrameWritten == clientPc # "idle" /\ ownFrame # NoResp

\* C37: once the server has completely written the response frame to the
\* command of a List, Run or RunInTerminal call, the call's readResponse
\* eventually returns, without further bytes from the server and without
\* the connection being closed.
C37_ReadResponseReturns == FrameWritten ~> (clientPc = "idle")

\* C38: a command answered with an error frame (a run without an Int id or
\* with an unknown id, a lang without a String argument, a verb without a
\* handler, a line that fails to parse) leaves the three filter lists, the
\* language and the index as they were.
C38_ErrorLeavesState ==
    [][ErrorFrameStep =>
          /\ UNCHANGED <<nameFilters, catFilters, pathFilters>>
          /\ UNCHANGED lang
          /\ UNCHANGED <<idxIndex, indexes>>]_vars

\* a lang command without a String argument has been answered with an error
\* frame while a name filter and a language were set
C38_Witness ==
    /\ errLine = lineCount
    /\ last.verb = "lang"
    /\ IsErrorFrame(lastResp)
    /\ lang # << >>
    /\ nameFilters # << >>

\* the id given to the RunInTerminal call in progress
TerminalId == ParseInt(given[callLine - 1].text).val

\* C39: Client.RunInTerminal(id) for an id of the index is accepted by the
\* server: the frame written for its run command is a success frame with
\* 'cmd: run' and that idx, written after the entry was spawned (or the
\* error frame of a child process that the system failed to start), and
\* not the error frame of a rejected command.
C39_RunInTerminalAccepted ==
    (/\ clientPc = "RunInTerminal"
     /\ ownFrame # NoResp
     /\ IndexGet(indexes[idxIndex], TerminalId).ok)
    => \/ /\ IsStatusFrame(ownFrame, VRun)
          /\ AttrOf(ownFrame, "idx") = Itoa(TerminalId)
          /\ spawnCount > 0
       \/ AttrOf(ownFrame, "error") = <<"e","x","e","c","u","t","i","o","n"," ","f","a","i","l","e","d">>

\* the words FormatArgument sends as Bool
BoolWords == {<<"t">>, <<"f">>, <<"o","r">>, <<"a","n","d">>, <<"n","o","t">>}

\* the Value v is what the text a stands for: a Bool for the words t, f,
\* or, and, not, the Int of a decimal integer, the String a otherwise
Means(v, a) ==
    IF a \in BoolWords THEN v.Type = TypeBool
    ELSE IF ParseInt(a).ok
    THEN v.Type = TypeInt /\ v.Int = ParseInt(a).val
    ELSE v.Type = TypeString /\ v.Str = a

\* the same of an argument without the white space at its ends; an argument
\* that begins with a double quote stands for the String that follows it
MeansTrimmed(v, arg) ==
    IF HasPrefix(TrimSpace(arg), <<"\"">>)
    THEN v.Type = TypeString /\ v.Str = Tail(TrimSpace(arg))
    ELSE Means(v, TrimSpace(arg))

\* ParseCommand takes the line as a value: it does not skip it, parseCommand
\* does not know it and parseValue accepts it
TakenAsValue(line) ==
    /\ Token(line)
    /\ ParseCommandName(line) = << >>
    /\ ParseValue(TrimSpace(line)).ok

\* the lines written for arguments
ArgLines == {i \in 1..Len(given) : given[i].arg}

\* C40: for every argument without line feed the line FormatArgument
\* produces is taken by the server's parser as a value, never as a verb, a
\* parse error or a line to skip, and the command that follows it gets the
\* value the client meant: a Bool for t, f, or, and, not, the Int of a
\* decimal integer, and for anything else a String whose text is the
\* argument.
C40_ArgumentArrivesAsGiven ==
    \A i \in ArgLines :
        /\ TakenAsValue(sentLines[i])
        /\ lastCmd.line = i + 1 =>
              /\ Len(lastCmd.Args) = 1
              /\ Means(lastCmd.Args[1], given[i].text)

\* C40, amended: the same with the value meant by the argument without the
\* white space at its ends, and, for an argument that begins with a double
\* quote, the String that follows the quote.
C40_ArgumentArrivesTrimmed ==
    \A i \in ArgLines :
        /\ TakenAsValue(sentLines[i])
        /\ lastCmd.line = i + 1 =>
              /\ Len(lastCmd.Args) = 1
              /\ MeansTrimmed(lastCmd.Args[1], given[i].text)

\* the argument list, a verb word, has arrived as the String list, and the
\* argument 42 of the command before it as an Int
C40_Witness ==
    /\ Len(given) = 4
    /\ given[1].text = <<"4","2">>
    /\ given[3].text = <<"l","i","s","t">>
    /\ lastCmd.line = 4
    /\ lastCmd.Name = VLang
    /\ Len(lastCmd.Args) = 1
    /\ lastCmd.Args[1].Type = TypeString
    /\ lastCmd.Args[1].Str = <<"l","i","s","t">>
    /\ lang = <<"l","i","s","t">>
====
